---- MODULE Spec2Model ----
(***************************************************************************)
(* The DMA ping-pong character device (dmapp): two participant slots, two  *)
(* fences bound to the device spinlock, and the open / release / ioctl     *)
(* handlers, each split at the points where the device spinlock is taken   *)
(* or released and where the handler may sleep.                            *)
(***************************************************************************)
EXTENDS Integers, FiniteSets, Sequences, TLC

\* Number of kernel execution contexts (each with its own open file).
NumThreads == 3

\* Largest control code a caller passes; codes above 5 are unknown ones.
MaxCmd == 6

Threads == 1..NumThreads
Files == 1..NumThreads

NULL == 0
NoFence == -1

DMAPP_BUFFER_SIZE == 10
DMAPP_IOCTL_GET_BUFFER_SIZE == 1
DMAPP_IOCTL_GET_BUFFER_FD == 2
DMAPP_IOCTL_GET_BUFFER_PARITY == 3
DMAPP_IOCTL_BUFFER_LOCK == 4
DMAPP_IOCTL_BUFFER_UNLOCK == 5

ENOMEM == 12
EINVAL == 22
EMFILE == 24
ENOTTY == 25
ERESTARTSYS == 512

\* A file descriptor number handed out by dma_buf_fd.
BufFd == 3

Cmds == 1..MaxCmd

\* Free entries in the descriptor table that dma_buf_fd can use.
MaxBufFds == 2

\* Releases of the buffer's memory that are counted.
MaxFreed == 2

\* Largest value a client writes into the buffer.
MaxValue == 1

Values == 0..MaxValue

EBUSY == 16
EFAULT == 14

EKM_IOCTL_GET_DATA == 1
EKM_IOCTL_SET_DATA == 2

\* Largest control code passed to the echo module; codes above 2 are
\* unknown ones.
MaxEkmCmd == 3

EkmCmds == 1..MaxEkmCmd

\* The value the echo module holds after probe.
EKM_DEFAULT == 42

EkmValues == Values \cup {EKM_DEFAULT}

\* What probe acquires, in the order in which it does.
AllResources == <<"dmapp_dev", "chrdev_region", "device", "fence0", "fence1",
                  "buffer", "coherent", "dma_buf", "cdev">>

Resources == {AllResources[i] : i \in 1..Len(AllResources)}

\* The steps of probe that can fail, and the errors each can fail with.
ProbeSteps == {"alloc_dev", "alloc_chrdev", "device_create", "fence_0_alloc",
               "fence_1_alloc", "fence_signal", "alloc_buffer", "alloc_coherent",
               "dma_buf_export", "cdev_add"}

ProbeErrors(step) ==
    CASE step \in {"alloc_chrdev", "cdev_add"} -> {-ENOMEM, -EBUSY}
      [] step \in {"device_create", "dma_buf_export"} -> {-ENOMEM, -EINVAL}
      [] step = "fence_signal" -> {-EINVAL}
      [] OTHER -> {-ENOMEM}

\* The error labels of probe.
ErrLabels == {"err_cdev_add", "err_dma_buf_export", "err_alloc_coherent",
              "err_alloc_buffer", "err_fence_signal", "err_fence_1_alloc",
              "err_fence_0_alloc", "err_device_create", "err_alloc_chrdev"}

ProbePcs == ProbeSteps \cup ErrLabels \cup {"done", "failed"}

\* Number of attachments of importing devices that map the buffer.
NumImporters == 2

Importers == 1..NumImporters

\* What dmapp_buf_map acquires, in the order in which it does: the sg_table
\* descriptor, its scatterlist, and the device mapping of the list.
SgResources == {"sgt", "sg_table", "dma_mapping"}

\* Where a map of an attachment is: not yet called, at one of the steps or
\* error labels of dmapp_buf_map, returned (mapped, failed), or unmapped by
\* dmapp_buf_unmap.
MapPcs == {"unused", "sg_alloc_table", "dma_map_sg", "err_dma_map_sg",
           "err_sg_alloc_table", "mapped", "failed", "unmapped"}

VARIABLES
    user,          \* dmapp_dev->user[0..1]: the file registered in each slot, or NULL
    fence,         \* dmapp_dev->fence[0..1]: TRUE when signaled, FALSE when pending
    spinlock,      \* dmapp_dev->spinlock: the thread holding it, or NULL
    is_locked,     \* user->is_locked of the dmapp_user allocated for each file
    private_data,  \* file->private_data # NULL: the file is open
    fd,            \* the file each thread issues its calls on
    pc,            \* where each thread is inside a handler ("idle": in user space)
    cmd,           \* cmd argument of the thread's current or last ioctl (0: none yet)
    parity,        \* local parity of open / ioctl
    signal_fence,  \* local signal_fence of release / ioctl (index, or NoFence)
    wait_fence,    \* local wait_fence of ioctl (index)
    ret,           \* local ret of release / ioctl while the thread is in the call
    lastRet,       \* the return to user space made by the last step, if it made one:
                   \* the thread, the call, where in it, its cmd and the value
    lastAcq,       \* history: parity of the last completed acquisition, -1 when none
    firstAcq,      \* history: parity of the first completed acquisition, -1 when none
    released,      \* history: the parity lastAcq gave its turn up since it acquired
    attached,      \* the platform device is bound: probe succeeded, remove has not run
    buf_refs,      \* reference count of the file of dmapp_dev->buf (the exported dma_buf)
    buf_fds,       \* descriptors installed by dma_buf_fd that user space has not closed
    buf_freed,     \* times dmapp_buf_release has freed the buffer's memory
    buf_data,      \* the contents of the buffer (one word of it)
    access,        \* the access to the mapped buffer made by the last step, if any
    handoff,       \* history: the contents when a turn was last handed over by unlock
    touched,       \* history: the buffer was written since the last acquisition
    probe_pc,      \* where dmapp_platform_driver_probe is ("done", "failed": returned)
    probe_ret,     \* local ret of probe
    probe_acq,     \* history: what probe has acquired, in the order of acquisition
    probe_log,     \* history: what probe has released again, in the order of release
    probe_fail,    \* history: the step of probe that failed ("none": none has)
    ekm_open,      \* echo module: the file is open on /dev/ekm0
    ekm_data,      \* echo module: ekm_dev->data.value
    ekm_arg,       \* echo module: the value in the caller's struct ekm_data
    ekm_temp,      \* echo module: local temp.value of ekm_cdev_ioctl
    ekm_out,       \* echo module: what the last step copied to its caller, <<>> if nothing
    ekm_last,      \* history: value and file of the last set-data that returned 0
    ekm_window,    \* history: the values ekm_last has had during each get-data call
    map_pc,        \* where the dmapp_buf_map / dmapp_buf_unmap of each attachment is
    map_err,       \* what the last dmapp_buf_map returned: 0 for a table, else the error
    map_acq,       \* history: what the current or last map acquired, in order
    map_log        \* history: what was released of it, in the order of release

vars == <<user, fence, spinlock, is_locked, private_data, fd, pc, cmd, parity,
          signal_fence, wait_fence, ret, lastRet, lastAcq, firstAcq, released,
          attached, buf_refs, buf_fds, buf_freed, buf_data, access, handoff, touched,
          probe_pc, probe_ret, probe_acq, probe_log, probe_fail,
          ekm_open, ekm_data, ekm_arg, ekm_temp, ekm_out, ekm_last, ekm_window,
          map_pc, map_err, map_acq, map_log>>

shared == <<user, fence, is_locked>>
locals == <<cmd, parity, signal_fence, wait_fence, ret>>
history == <<lastAcq, firstAcq, released, handoff, touched>>
dmabuf == <<attached, buf_refs, buf_fds, buf_freed>>
probe == <<probe_pc, probe_ret, probe_acq, probe_log, probe_fail>>
ekm == <<ekm_open, ekm_data, ekm_arg, ekm_temp, ekm_out, ekm_last, ekm_window>>
sgmap == <<map_pc, map_err, map_acq, map_log>>

\* What no call on the character device and no access to the buffer touches.
beyond == <<probe, ekm, sgmap>>

\* What the handlers of the character device other than GET_BUFFER_FD never
\* touch: the exported buffer object, the buffer's contents, and the rest.
elsewhere == <<dmabuf, buf_data, beyond>>

PcValues == {"idle", "open_lock", "open_assign", "rel_disconnect", "rel_check",
             "rel_signal", "ioctl_validate", "ioctl_fd", "lock_wait", "lock_spin",
             "lock_rearm", "unlock_signal", "unlock_spin", "unlock_clear",
             "ekm_get_copy", "ekm_set_store"}

TypeOK ==
    /\ user \in [0..1 -> Files \cup {NULL}]
    /\ fence \in [0..1 -> BOOLEAN]
    /\ spinlock \in Threads \cup {NULL}
    /\ is_locked \in [Files -> BOOLEAN]
    /\ private_data \in [Files -> BOOLEAN]
    /\ fd \in [Threads -> Files]
    /\ pc \in [Threads -> PcValues]
    /\ cmd \in [Threads -> Cmds \cup {0}]
    /\ parity \in [Threads -> 0..1]
    /\ signal_fence \in [Threads -> {NoFence, 0, 1}]
    /\ wait_fence \in [Threads -> 0..1]
    /\ ret \in [Threads -> Int]
    /\ lastRet \in [thread : Threads \cup {NULL}, call : {"none", "open", "release", "ioctl", "ekm_open",
                            "ekm_release", "ekm_ioctl"},
                    at : PcValues, cmd : Cmds \cup {0}, val : Int]
    /\ lastAcq \in {-1, 0, 1}
    /\ firstAcq \in {-1, 0, 1}
    /\ released \in BOOLEAN
    /\ attached \in BOOLEAN
    /\ buf_refs \in 0..1
    /\ buf_fds \in 0..MaxBufFds
    /\ buf_freed \in 0..MaxFreed
    /\ buf_data \in Values
    /\ access \in [thread : Threads \cup {NULL}, op : {"none", "read", "write"},
                   val : Values]
    /\ handoff \in Values
    /\ touched \in BOOLEAN
    /\ probe_pc \in ProbePcs
    /\ probe_ret \in Int
    /\ probe_acq \in Seq(Resources)
    /\ probe_log \in Seq(Resources)
    /\ probe_fail \in ProbeSteps \cup {"none"}
    /\ ekm_open \in [Files -> BOOLEAN]
    /\ ekm_data \in EkmValues
    /\ ekm_arg \in [Threads -> Values]
    /\ ekm_temp \in [Threads -> EkmValues]
    /\ ekm_out \in {<<>>} \cup {<<v>> : v \in EkmValues}
    /\ ekm_last \in [val : EkmValues, by : Files \cup {NULL}]
    /\ ekm_window \in [Threads -> SUBSET EkmValues]
    /\ map_pc \in [Importers -> MapPcs]
    /\ map_err \in [Importers -> Int]
    /\ map_acq \in [Importers -> Seq(SgResources)]
    /\ map_log \in [Importers -> Seq(SgResources)]

NoAccess == [thread |-> NULL, op |-> "none", val |-> 0]

NoRet == [thread |-> NULL, call |-> "none", at |-> "idle", cmd |-> 0, val |-> 0]

\* No file is open and no call is in flight; no descriptor of the buffer is
\* out, and the buffer's memory is as the allocation zeroed it. The echo
\* module has been probed (data.value = 42) and none of its files is open.
\* No importer has mapped the buffer.
Quiescent ==
    /\ spinlock = NULL
    /\ is_locked = [f \in Files |-> FALSE]
    /\ private_data = [f \in Files |-> FALSE]
    /\ pc = [t \in Threads |-> "idle"]
    /\ cmd = [t \in Threads |-> 0]
    /\ parity = [t \in Threads |-> 0]
    /\ signal_fence = [t \in Threads |-> NoFence]
    /\ wait_fence = [t \in Threads |-> 0]
    /\ ret = [t \in Threads |-> 0]
    /\ lastRet = NoRet
    /\ lastAcq = -1
    /\ firstAcq = -1
    /\ released = FALSE
    /\ buf_fds = 0
    /\ buf_freed = 0
    /\ buf_data = 0
    /\ access = NoAccess
    /\ handoff = 0
    /\ touched = FALSE
    /\ ekm_open = [f \in Files |-> FALSE]
    /\ ekm_data = EKM_DEFAULT
    /\ ekm_arg = [t \in Threads |-> 0]
    /\ ekm_temp = [t \in Threads |-> 0]
    /\ ekm_out = <<>>
    /\ ekm_last = [val |-> EKM_DEFAULT, by |-> NULL]
    /\ ekm_window = [t \in Threads |-> {}]
    /\ map_pc = [i \in Importers |-> "unused"]
    /\ map_err = [i \in Importers |-> 0]
    /\ map_acq = [i \in Importers |-> <<>>]
    /\ map_log = [i \in Importers |-> <<>>]

\* probe has returned 0: the device is attached, everything is acquired and
\* dma_buf_export has left one reference to the buffer, the device's.
ProbeDone ==
    /\ attached = TRUE
    /\ buf_refs = 1
    /\ probe_pc = "done"
    /\ probe_ret = 0
    /\ probe_acq = AllResources
    /\ probe_log = <<>>
    /\ probe_fail = "none"

\* Mutant: probe signals fence[0] instead of fence[1].
Init_SignalsFence0 ==
    /\ user = [p \in 0..1 |-> NULL]
    /\ fence = [p \in 0..1 |-> p = 0]
    /\ fd = [t \in Threads |-> t]
    /\ Quiescent
    /\ ProbeDone

\* State after a successful probe: both slots empty, fence[0] initialised
\* (pending), fence[1] initialised and then signaled, spinlock free. Each
\* thread has a file of its own.
Init ==
    /\ user = [p \in 0..1 |-> NULL]
    /\ fence = [p \in 0..1 |-> p = 1]
    /\ fd = [t \in Threads |-> t]
    /\ Quiescent
    /\ ProbeDone

\* No other call is in flight on the thread's file (open and release run
\* only when no ioctl holds a reference to the file).
FileQuiet(t) == \A t2 \in Threads : fd[t2] = fd[t] => pc[t2] = "idle"

\* The call of thread t returns r to user space; its locals are gone.
Return(t, call, r) ==
    /\ pc' = [pc EXCEPT ![t] = "idle"]
    /\ lastRet' = [thread |-> t, call |-> call, at |-> pc[t], cmd |-> cmd[t], val |-> r]
    /\ cmd' = [cmd EXCEPT ![t] = 0]
    /\ parity' = [parity EXCEPT ![t] = 0]
    /\ signal_fence' = [signal_fence EXCEPT ![t] = NoFence]
    /\ wait_fence' = [wait_fence EXCEPT ![t] = 0]
    /\ ret' = [ret EXCEPT ![t] = 0]
    /\ access' = NoAccess

\* Thread t moves on inside its call.
Goto(t, label) ==
    /\ pc' = [pc EXCEPT ![t] = label]
    /\ lastRet' = NoRet
    /\ access' = NoAccess

(***************************************************************************)
(* dmapp_cdev_open                                                         *)
(***************************************************************************)

\* Mutant: scans slot 1 before slot 0.
AssignParity_OddFirst(u0, u1) ==
    IF u1 = NULL THEN 1 ELSE IF u0 = NULL THEN 0 ELSE -1

\* Mutant: a full device hands out slot 1 again.
AssignParity_Overwrite(u0, u1) ==
    IF u0 = NULL THEN 0 ELSE 1

\* "Assign parity to user": the first free slot, -1 when both are taken.
AssignParity(u0, u1) ==
    IF u0 = NULL THEN 0 ELSE IF u1 = NULL THEN 1 ELSE -1

\* Mutant: the user is allocated without being zeroed; is_locked is what
\* the memory held.
OpenAlloc_NotZeroed(t) ==
    /\ attached
    /\ pc[t] = "idle"
    /\ ~private_data[fd[t]]
    /\ FileQuiet(t)
    /\ Goto(t, "open_lock")
    /\ UNCHANGED <<user, fence, is_locked, spinlock, private_data, fd, elsewhere, locals,
                   history>>

\* user = kzalloc(...) succeeds (is_locked starts false); next: spin_lock.
OpenAlloc(t) ==
    /\ attached
    /\ pc[t] = "idle"
    /\ ~private_data[fd[t]]
    /\ FileQuiet(t)
    /\ is_locked' = [is_locked EXCEPT ![fd[t]] = FALSE]
    /\ Goto(t, "open_lock")
    /\ UNCHANGED <<user, fence, spinlock, private_data, fd, elsewhere, locals, history>>

\* user = kzalloc(...) fails: return -ENOMEM.
OpenAllocFail(t) ==
    /\ attached
    /\ pc[t] = "idle"
    /\ ~private_data[fd[t]]
    /\ FileQuiet(t)
    /\ Return(t, "open", -ENOMEM)
    /\ UNCHANGED <<shared, spinlock, private_data, fd, elsewhere, history>>

\* spin_lock(&dmapp_dev->spinlock)
OpenSpinLock(t) ==
    /\ pc[t] = "open_lock"
    /\ spinlock = NULL
    /\ spinlock' = t
    /\ Goto(t, "open_assign")
    /\ UNCHANGED <<shared, private_data, fd, elsewhere, locals, history>>

\* The critical section of open up to the return: register in the assigned
\* slot and return 0, or unlock, free the user and return -EINVAL.
OpenAssign(t) ==
    /\ pc[t] = "open_assign"
    /\ spinlock' = NULL
    /\ LET p == AssignParity(user[0], user[1]) IN
       IF p = -1
       THEN /\ Return(t, "open", -EINVAL)
            /\ UNCHANGED <<user, private_data>>
       ELSE /\ user' = [user EXCEPT ![p] = fd[t]]
            /\ private_data' = [private_data EXCEPT ![fd[t]] = TRUE]
            /\ Return(t, "open", 0)
    /\ UNCHANGED <<fence, is_locked, fd, elsewhere, history>>

(***************************************************************************)
(* dmapp_cdev_release                                                      *)
(***************************************************************************)

\* Mutant: release signals the other parity's fence whether or not the
\* user is locked.
AbandonFence_Always(p, locked) == 1 - p

\* The fence release signals on behalf of a user found in slot p: the other
\* parity's fence when the user is locked, none otherwise.
AbandonFence(p, locked) == IF locked THEN 1 - p ELSE NoFence

\* Entry of release and spin_lock.
ReleaseSpinLock(t) ==
    /\ pc[t] = "idle"
    /\ private_data[fd[t]]
    /\ FileQuiet(t)
    /\ spinlock = NULL
    /\ spinlock' = t
    /\ Goto(t, "rel_disconnect")
    /\ UNCHANGED <<shared, private_data, fd, elsewhere, locals, history>>

\* "Disconnect the user" under the spinlock, spin_unlock, then
\* file->private_data = NULL and kfree(user).
ReleaseDisconnect(t) ==
    /\ pc[t] = "rel_disconnect"
    /\ LET u == fd[t]
           slot == IF user[0] = u THEN 0 ELSE IF user[1] = u THEN 1 ELSE -1
           sf == IF slot = -1 THEN NoFence ELSE AbandonFence(slot, is_locked[u])
       IN /\ user' = [p \in 0..1 |-> IF p = slot THEN NULL ELSE user[p]]
          /\ signal_fence' = [signal_fence EXCEPT ![t] = sf]
          /\ released' = (released \/ (sf # NoFence /\ slot = lastAcq))
    /\ spinlock' = NULL
    /\ private_data' = [private_data EXCEPT ![fd[t]] = FALSE]
    /\ ret' = [ret EXCEPT ![t] = 0]
    /\ Goto(t, "rel_check")
    /\ UNCHANGED <<fence, is_locked, fd, elsewhere, cmd, parity, wait_fence, lastAcq, firstAcq,
                   handoff, touched>>

\* Mutant: release signals without testing whether the fence is signaled.
ReleaseCheck_NoTest(t) ==
    /\ pc[t] = "rel_check"
    /\ IF signal_fence[t] # NoFence
       THEN Goto(t, "rel_signal") /\ UNCHANGED locals
       ELSE Return(t, "release", ret[t])
    /\ UNCHANGED <<shared, spinlock, private_data, fd, elsewhere, history>>

\* if (signal_fence && !dma_fence_is_signaled(signal_fence)) ... else return ret
ReleaseCheck(t) ==
    /\ pc[t] = "rel_check"
    /\ IF signal_fence[t] # NoFence /\ ~fence[signal_fence[t]]
       THEN Goto(t, "rel_signal") /\ UNCHANGED locals
       ELSE Return(t, "release", ret[t])
    /\ UNCHANGED <<shared, spinlock, private_data, fd, elsewhere, history>>

\* Mutant: the abandonment path returns without signaling.
ReleaseSignal_Skip(t) ==
    /\ pc[t] = "rel_signal"
    /\ Return(t, "release", 0)
    /\ UNCHANGED <<shared, spinlock, private_data, fd, elsewhere, history>>

\* ret = dma_fence_signal(signal_fence), which takes the fence's lock (the
\* device spinlock) and fails with -EINVAL on a signaled fence; return ret.
ReleaseSignal(t) ==
    /\ pc[t] = "rel_signal"
    /\ spinlock = NULL
    /\ IF fence[signal_fence[t]]
       THEN Return(t, "release", -EINVAL) /\ UNCHANGED fence
       ELSE /\ fence' = [fence EXCEPT ![signal_fence[t]] = TRUE]
            /\ Return(t, "release", 0)
    /\ UNCHANGED <<user, is_locked, spinlock, private_data, fd, elsewhere, history>>

(***************************************************************************)
(* dmapp_cdev_ioctl                                                        *)
(***************************************************************************)

\* Mutant: unlock signals the caller's own wait fence.
SignalFenceOf_Own(p) == p

\* Mutant: lock waits on the other parity's fence.
WaitFenceOf_Other(p) == 1 - p

\* "Validate user, determine parity and assign fences": the fence a user of
\* parity p signals is the other parity's, the fence it waits on is its own.
SignalFenceOf(p) == 1 - p

WaitFenceOf(p) == p

\* Mutant: a lock request is never ignored.
LockIgnored_Never(c, locked) == FALSE

\* "Ignore ioctl when already in locked state"
LockIgnored(c, locked) == c = DMAPP_IOCTL_BUFFER_LOCK /\ locked

\* Mutant: an unlock request is never ignored.
UnlockIgnored_Never(c, locked) == FALSE

\* "Ignore ioctl when already in unlocked state"
UnlockIgnored(c, locked) == c = DMAPP_IOCTL_BUFFER_UNLOCK /\ ~locked

\* Mutant: the other parity's fence is the one made pending.
FenceInit_Other(f, p) == [f EXCEPT ![1 - p] = FALSE]

\* Mutant: the wait fence is left as it is when the turn is taken.
FenceInit_Keep(f, p) == f

\* dma_fence_init(wait_fence, ...): the fence of index p is pending again.
FenceInit(f, p) == [f EXCEPT ![p] = FALSE]

\* Entry of ioctl on an open file, with ret = 0, and spin_lock.
IoctlSpinLock(t, c) ==
    /\ pc[t] = "idle"
    /\ private_data[fd[t]]
    /\ spinlock = NULL
    /\ spinlock' = t
    /\ cmd' = [cmd EXCEPT ![t] = c]
    /\ ret' = [ret EXCEPT ![t] = 0]
    /\ Goto(t, "ioctl_validate")
    /\ UNCHANGED <<shared, private_data, fd, elsewhere, parity, signal_fence, wait_fence, history>>

\* The call goes on past the first critical section with parity p.
Proceed(t, p, label) ==
    /\ parity' = [parity EXCEPT ![t] = p]
    /\ signal_fence' = [signal_fence EXCEPT ![t] = SignalFenceOf(p)]
    /\ wait_fence' = [wait_fence EXCEPT ![t] = WaitFenceOf(p)]
    /\ Goto(t, label)
    /\ UNCHANGED <<cmd, ret>>

\* Mutant: the slot test is inverted.
ParityOf_Swapped(u) == IF user[0] = u THEN 1 ELSE 0

\* parity of the caller: the slot (0, else 1) that holds its user.
ParityOf(u) == IF user[0] = u THEN 0 ELSE 1

\* Mutant: the default case leaves ret as it was.
DefaultRet_Keep(r) == r

\* default: ret = -ENOTTY, whatever ret was.
DefaultRet(r) == -ENOTTY

\* Mutant: a lock request keeps the device spinlock while it goes on to its
\* wait.
IoctlValidate_HoldsLock(t) ==
    /\ pc[t] = "ioctl_validate"
    /\ LET u == fd[t] IN
       IF user[0] # u /\ user[1] # u
       THEN Return(t, "ioctl", -EINVAL) /\ spinlock' = NULL
       ELSE LET p == ParityOf(u) IN
            IF LockIgnored(cmd[t], is_locked[u]) \/ UnlockIgnored(cmd[t], is_locked[u])
            THEN Return(t, "ioctl", 0) /\ spinlock' = NULL
            ELSE CASE cmd[t] = DMAPP_IOCTL_GET_BUFFER_SIZE ->
                        Return(t, "ioctl", DMAPP_BUFFER_SIZE) /\ spinlock' = NULL
                   [] cmd[t] = DMAPP_IOCTL_GET_BUFFER_PARITY ->
                        Return(t, "ioctl", p) /\ spinlock' = NULL
                   [] cmd[t] = DMAPP_IOCTL_GET_BUFFER_FD ->
                        Proceed(t, p, "ioctl_fd") /\ spinlock' = NULL
                   [] cmd[t] = DMAPP_IOCTL_BUFFER_LOCK ->
                        Proceed(t, p, "lock_wait") /\ spinlock' = t
                   [] cmd[t] = DMAPP_IOCTL_BUFFER_UNLOCK ->
                        Proceed(t, p, "unlock_signal") /\ spinlock' = NULL
                   [] OTHER ->
                        Return(t, "ioctl", DefaultRet(ret[t])) /\ spinlock' = NULL
    /\ UNCHANGED <<shared, private_data, fd, elsewhere, history>>

\* Mutant: get-buffer-size clears the caller's locked flag.
IoctlValidate_SizeClears(t) ==
    /\ pc[t] = "ioctl_validate"
    /\ spinlock' = NULL
    /\ LET u == fd[t] IN
       /\ is_locked' = IF cmd[t] = DMAPP_IOCTL_GET_BUFFER_SIZE
                        THEN [is_locked EXCEPT ![u] = FALSE] ELSE is_locked
       /\ IF user[0] # u /\ user[1] # u
          THEN Return(t, "ioctl", -EINVAL)
          ELSE LET p == ParityOf(u) IN
               IF LockIgnored(cmd[t], is_locked[u]) \/ UnlockIgnored(cmd[t], is_locked[u])
               THEN Return(t, "ioctl", 0)
               ELSE CASE cmd[t] = DMAPP_IOCTL_GET_BUFFER_SIZE ->
                           Return(t, "ioctl", DMAPP_BUFFER_SIZE)
                      [] cmd[t] = DMAPP_IOCTL_GET_BUFFER_PARITY ->
                           Return(t, "ioctl", p)
                      [] cmd[t] = DMAPP_IOCTL_GET_BUFFER_FD ->
                           Proceed(t, p, "ioctl_fd")
                      [] cmd[t] = DMAPP_IOCTL_BUFFER_LOCK ->
                           Proceed(t, p, "lock_wait")
                      [] cmd[t] = DMAPP_IOCTL_BUFFER_UNLOCK ->
                           Proceed(t, p, "unlock_signal")
                      [] OTHER ->
                           Return(t, "ioctl", DefaultRet(ret[t]))
    /\ UNCHANGED <<user, fence, private_data, fd, elsewhere, history>>

\* The first critical section and the dispatch after it, up to the first
\* access to a fence: validation, the two "ignore" cases, spin_unlock, and
\* the commands that return at once.
IoctlValidate(t) ==
    /\ pc[t] = "ioctl_validate"
    /\ spinlock' = NULL
    /\ LET u == fd[t] IN
       IF user[0] # u /\ user[1] # u
       THEN Return(t, "ioctl", -EINVAL)
       ELSE LET p == ParityOf(u) IN
            IF LockIgnored(cmd[t], is_locked[u]) \/ UnlockIgnored(cmd[t], is_locked[u])
            THEN Return(t, "ioctl", 0)
            ELSE CASE cmd[t] = DMAPP_IOCTL_GET_BUFFER_SIZE ->
                        Return(t, "ioctl", DMAPP_BUFFER_SIZE)
                   [] cmd[t] = DMAPP_IOCTL_GET_BUFFER_PARITY ->
                        Return(t, "ioctl", p)
                   [] cmd[t] = DMAPP_IOCTL_GET_BUFFER_FD ->
                        Proceed(t, p, "ioctl_fd")
                   [] cmd[t] = DMAPP_IOCTL_BUFFER_LOCK ->
                        Proceed(t, p, "lock_wait")
                   [] cmd[t] = DMAPP_IOCTL_BUFFER_UNLOCK ->
                        Proceed(t, p, "unlock_signal")
                   [] OTHER ->
                        Return(t, "ioctl", DefaultRet(ret[t]))
    /\ UNCHANGED <<shared, private_data, fd, elsewhere, history>>

\* dma_buf_fd(dmabuf, flags) installs dmabuf->file in the descriptor table;
\* it takes no reference, the descriptor owns the one the caller held.
DmaBufFd(refs) == refs

\* The results dma_buf_fd(dmapp_dev->buf, 0) can have: a descriptor when the
\* table has room, -EMFILE when it has none; and, once the buffer has been
\* released and dmapp_dev->buf dangles, whatever the freed memory holds
\* makes of it (a descriptor, or -EINVAL for a file pointer read as NULL).
DmaBufFdResults ==
    (IF buf_fds < MaxBufFds THEN {BufFd} ELSE {}) \cup {-EMFILE}
        \cup (IF buf_refs = 0 THEN {-EINVAL} ELSE {})

\* ret = dma_buf_fd(dmapp_dev->buf, 0); return ret.
IoctlGetBufferFd(t) ==
    /\ pc[t] = "ioctl_fd"
    /\ \E r \in DmaBufFdResults :
          /\ Return(t, "ioctl", r)
          /\ IF r = BufFd
             THEN /\ buf_fds' = buf_fds + 1
                  /\ buf_refs' = (IF buf_refs = 0 THEN 0 ELSE DmaBufFd(buf_refs))
             ELSE UNCHANGED <<buf_fds, buf_refs>>
    /\ UNCHANGED <<shared, spinlock, private_data, fd, attached, buf_freed, buf_data,
                   history,
                   beyond>>

\* dma_fence_wait(wait_fence, true) returns 0: the fence is signaled.
LockWait(t) ==
    /\ pc[t] = "lock_wait"
    /\ fence[wait_fence[t]]
    /\ Goto(t, "lock_spin")
    /\ UNCHANGED <<shared, spinlock, private_data, fd, elsewhere, locals, history>>

\* Mutant: an interrupted wait still marks the caller as locked.
LockInterrupted_Marks(t) ==
    /\ pc[t] = "lock_wait"
    /\ is_locked' = [is_locked EXCEPT ![fd[t]] = TRUE]
    /\ Return(t, "ioctl", -ERESTARTSYS)
    /\ UNCHANGED <<user, fence, spinlock, private_data, fd, elsewhere, history>>

\* dma_fence_wait(wait_fence, true) is interrupted by a signal: ret < 0 is
\* returned.
LockInterrupted(t) ==
    /\ pc[t] = "lock_wait"
    /\ Return(t, "ioctl", -ERESTARTSYS)
    /\ UNCHANGED <<shared, spinlock, private_data, fd, elsewhere, history>>

\* spin_lock before "Reinitialize wait_fence ..."
LockSpinLock(t) ==
    /\ pc[t] = "lock_spin"
    /\ spinlock = NULL
    /\ spinlock' = t
    /\ Goto(t, "lock_rearm")
    /\ UNCHANGED <<shared, private_data, fd, elsewhere, locals, history>>

\* dma_fence_init(wait_fence, ...); user->is_locked = true; spin_unlock;
\* return ret (0).
LockRearm(t) ==
    /\ pc[t] = "lock_rearm"
    /\ fence' = FenceInit(fence, wait_fence[t])
    /\ is_locked' = [is_locked EXCEPT ![fd[t]] = TRUE]
    /\ spinlock' = NULL
    /\ Return(t, "ioctl", ret[t])
    /\ lastAcq' = parity[t]
    /\ firstAcq' = IF firstAcq = -1 THEN parity[t] ELSE firstAcq
    /\ released' = FALSE
    /\ touched' = FALSE
    /\ UNCHANGED <<user, private_data, fd, elsewhere, handoff>>

\* Mutant: the signal of unlock does not wait for the device spinlock.
UnlockSignal_NoLock(t) ==
    /\ pc[t] = "unlock_signal"
    /\ IF fence[signal_fence[t]]
       THEN /\ ret' = [ret EXCEPT ![t] = -EINVAL]
            /\ UNCHANGED fence
       ELSE /\ fence' = [fence EXCEPT ![signal_fence[t]] = TRUE]
            /\ UNCHANGED ret
    /\ released' = (released \/ parity[t] = lastAcq)
    /\ handoff' = buf_data
    /\ Goto(t, "unlock_spin")
    /\ UNCHANGED <<user, is_locked, spinlock, private_data, fd, elsewhere, cmd, parity,
                   signal_fence, wait_fence, lastAcq, firstAcq, touched>>

\* ret = dma_fence_signal(signal_fence), which takes the fence's lock (the
\* device spinlock) and fails with -EINVAL on a signaled fence.
UnlockSignal(t) ==
    /\ pc[t] = "unlock_signal"
    /\ spinlock = NULL
    /\ IF fence[signal_fence[t]]
       THEN /\ ret' = [ret EXCEPT ![t] = -EINVAL]
            /\ UNCHANGED fence
       ELSE /\ fence' = [fence EXCEPT ![signal_fence[t]] = TRUE]
            /\ UNCHANGED ret
    /\ released' = (released \/ parity[t] = lastAcq)
    /\ handoff' = buf_data
    /\ Goto(t, "unlock_spin")
    /\ UNCHANGED <<user, is_locked, spinlock, private_data, fd, elsewhere, cmd, parity,
                   signal_fence, wait_fence, lastAcq, firstAcq, touched>>

\* spin_lock before "Clear the locked flag"
UnlockSpinLock(t) ==
    /\ pc[t] = "unlock_spin"
    /\ spinlock = NULL
    /\ spinlock' = t
    /\ Goto(t, "unlock_clear")
    /\ UNCHANGED <<shared, private_data, fd, elsewhere, locals, history>>

\* Mutant: unlock returns 0 whatever dma_fence_signal returned.
UnlockClear_Swallows(t) ==
    /\ pc[t] = "unlock_clear"
    /\ is_locked' = [is_locked EXCEPT ![fd[t]] = FALSE]
    /\ spinlock' = NULL
    /\ Return(t, "ioctl", 0)
    /\ UNCHANGED <<user, fence, private_data, fd, elsewhere, history>>

\* user->is_locked = false; spin_unlock; return ret.
UnlockClear(t) ==
    /\ pc[t] = "unlock_clear"
    /\ is_locked' = [is_locked EXCEPT ![fd[t]] = FALSE]
    /\ spinlock' = NULL
    /\ Return(t, "ioctl", ret[t])
    /\ UNCHANGED <<user, fence, private_data, fd, elsewhere, history>>

(***************************************************************************)
(* The system: any thread takes the next step of a call, or starts one.    *)
(***************************************************************************)

\* The control codes whose handling stays within slots, flags and fences:
\* all but GET_BUFFER_FD, which only reads dmapp_dev->buf and is run with
\* the life of the exported buffer (BufSpec below).
ProtocolCmds == Cmds \ {DMAPP_IOCTL_GET_BUFFER_FD}

Next ==
    \E t \in Threads :
        \/ OpenAlloc(t)
        \/ OpenAllocFail(t)
        \/ OpenSpinLock(t)
        \/ OpenAssign(t)
        \/ ReleaseSpinLock(t)
        \/ ReleaseDisconnect(t)
        \/ ReleaseCheck(t)
        \/ ReleaseSignal(t)
        \/ \E c \in ProtocolCmds : IoctlSpinLock(t, c)
        \/ IoctlValidate(t)
        \/ LockWait(t)
        \/ LockInterrupted(t)
        \/ LockSpinLock(t)
        \/ LockRearm(t)
        \/ UnlockSignal(t)
        \/ UnlockSpinLock(t)
        \/ UnlockClear(t)

Spec == Init /\ [][Next]_vars

\* The steps thread t takes inside a call once it has entered it, an
\* interruption of its wait excepted.
Progress(t) ==
    \/ OpenSpinLock(t)
    \/ OpenAssign(t)
    \/ ReleaseDisconnect(t)
    \/ ReleaseCheck(t)
    \/ ReleaseSignal(t)
    \/ IoctlValidate(t)
    \/ LockWait(t)
    \/ LockSpinLock(t)
    \/ LockRearm(t)
    \/ UnlockSignal(t)
    \/ UnlockSpinLock(t)
    \/ UnlockClear(t)

\* Every call that has been entered keeps running: a kernel context that can
\* take a step again and again (the spinlock is granted in turn, a sleeper
\* on a signaled fence is woken) eventually takes it.
LiveSpec == Init /\ [][Next]_vars /\ \A t \in Threads : SF_vars(Progress(t))

\* The steps of Progress that take the spinlock or run with it or after it,
\* without LockWait: what thread t does when it is not asleep on a fence.
Granted(t) ==
    \/ OpenSpinLock(t)
    \/ OpenAssign(t)
    \/ ReleaseDisconnect(t)
    \/ ReleaseCheck(t)
    \/ ReleaseSignal(t)
    \/ IoctlValidate(t)
    \/ LockSpinLock(t)
    \/ LockRearm(t)
    \/ UnlockSignal(t)
    \/ UnlockSpinLock(t)
    \/ UnlockClear(t)

\* The spinlock is granted to whoever keeps asking for it, and a context
\* that is not asleep keeps running; nothing is assumed about fences being
\* signaled or about sleepers being woken.
GrantSpec == Init /\ [][Next]_vars /\ \A t \in Threads : SF_vars(Granted(t))

(***************************************************************************)
(* The life of the exported buffer: dma_buf_export in probe, dma_buf_fd in *)
(* GET_BUFFER_FD, close of such a descriptor, dma_buf_put in remove.       *)
(***************************************************************************)

\* fput on the file of the dma_buf, as <<references left, times freed>>: the
\* last reference runs dma_buf_release, hence dmapp_buf_release, which frees
\* the coherent memory and the descriptor. With no reference left the file
\* is already freed and the call uses freed memory: it may pass unnoticed
\* or run the release again (counted up to MaxFreed).
FPut(refs, freed) ==
    IF refs > 1 THEN {<<refs - 1, freed>>}
    ELSE IF refs = 1 THEN {<<0, freed + 1>>}
    ELSE {<<0, freed>>} \cup (IF freed < MaxFreed THEN {<<0, freed + 1>>} ELSE {})

\* User space closes a descriptor it got from GET_BUFFER_FD.
CloseBufFd ==
    /\ buf_fds > 0
    /\ buf_fds' = buf_fds - 1
    /\ \E o \in FPut(buf_refs, buf_freed) :
          /\ buf_refs' = o[1]
          /\ buf_freed' = o[2]
    /\ lastRet' = NoRet
    /\ access' = NoAccess
    /\ UNCHANGED <<shared, spinlock, private_data, fd, pc, locals, history, attached,
                   buf_data,
                   beyond>>

\* dmapp_platform_driver_remove, run at module unload (no file of the
\* character device is open): dma_buf_put(dmapp_dev->buf) drops the
\* device's reference.
Remove ==
    /\ attached
    /\ \A f \in Files : ~private_data[f]
    /\ \A t \in Threads : pc[t] = "idle"
    /\ attached' = FALSE
    /\ \E o \in FPut(buf_refs, buf_freed) :
          /\ buf_refs' = o[1]
          /\ buf_freed' = o[2]
    /\ lastRet' = NoRet
    /\ access' = NoAccess
    /\ UNCHANGED <<shared, spinlock, private_data, fd, pc, locals, history, buf_fds,
                   buf_data,
                   beyond>>

\* Participants open and close the device and ask for buffer descriptors,
\* user space closes descriptors, and the module is unloaded.
BufNext ==
    \/ \E t \in Threads :
          \/ OpenAlloc(t)
          \/ OpenSpinLock(t)
          \/ OpenAssign(t)
          \/ ReleaseSpinLock(t)
          \/ ReleaseDisconnect(t)
          \/ ReleaseCheck(t)
          \/ IoctlSpinLock(t, DMAPP_IOCTL_GET_BUFFER_FD)
          \/ IoctlValidate(t)
          \/ IoctlGetBufferFd(t)
    \/ CloseBufFd
    \/ Remove

BufSpec == Init /\ [][BufNext]_vars

(***************************************************************************)
(* dmapp_platform_driver_probe, one step per acquisition and per error     *)
(* label.                                                                  *)
(***************************************************************************)

\* What probe leaves alone: the calls on the character device, which cannot
\* start before probe has returned 0, the buffer's descriptors, and the echo
\* module.
calls == <<user, spinlock, is_locked, private_data, fd, pc, locals, lastRet, access,
           history, buf_fds, buf_data, ekm, sgmap>>

\* The step succeeds and has acquired r; probe goes on at next.
ProbeOk(r, next) ==
    /\ probe_acq' = Append(probe_acq, r)
    /\ probe_pc' = next
    /\ UNCHANGED <<probe_ret, probe_log, probe_fail>>

\* The step fails with one of its errors in ret; probe frees what the step
\* itself frees, if anything, and jumps to label.
ProbeFails(step, freed, label) ==
    /\ \E e \in ProbeErrors(step) : probe_ret' = e
    /\ probe_fail' = step
    /\ probe_log' = probe_log \o freed
    /\ probe_pc' = label
    /\ UNCHANGED probe_acq

\* An error label: release what it releases and fall through to next.
Unwind(freed, next) ==
    /\ probe_log' = probe_log \o freed
    /\ probe_pc' = next
    /\ UNCHANGED <<probe_ret, probe_acq, probe_fail>>

\* dmapp_dev = kzalloc(...), or return -ENOMEM.
ProbeAllocDev ==
    /\ probe_pc = "alloc_dev"
    /\ \/ ProbeOk("dmapp_dev", "alloc_chrdev")
       \/ ProbeFails("alloc_dev", <<>>, "failed")
    /\ UNCHANGED <<fence, attached, buf_refs, buf_freed, calls>>

\* ret = alloc_chrdev_region(...)
ProbeAllocChrdev ==
    /\ probe_pc = "alloc_chrdev"
    /\ \/ ProbeOk("chrdev_region", "device_create")
       \/ ProbeFails("alloc_chrdev", <<>>, "err_alloc_chrdev")
    /\ UNCHANGED <<fence, attached, buf_refs, buf_freed, calls>>

\* cdev_init; device = device_create(...); spin_lock_init
ProbeDeviceCreate ==
    /\ probe_pc = "device_create"
    /\ \/ ProbeOk("device", "fence_0_alloc")
       \/ ProbeFails("device_create", <<>>, "err_device_create")
    /\ UNCHANGED <<fence, attached, buf_refs, buf_freed, calls>>

\* fence[0] = kzalloc(...); dma_fence_init(fence[0], ...)
ProbeFence0Alloc ==
    /\ probe_pc = "fence_0_alloc"
    /\ \/ ProbeOk("fence0", "fence_1_alloc") /\ fence' = FenceInit(fence, 0)
       \/ ProbeFails("fence_0_alloc", <<>>, "err_fence_0_alloc") /\ UNCHANGED fence
    /\ UNCHANGED <<attached, buf_refs, buf_freed, calls>>

\* fence[1] = kzalloc(...); dma_fence_init(fence[1], ...)
ProbeFence1Alloc ==
    /\ probe_pc = "fence_1_alloc"
    /\ \/ ProbeOk("fence1", "fence_signal") /\ fence' = FenceInit(fence, 1)
       \/ ProbeFails("fence_1_alloc", <<>>, "err_fence_1_alloc") /\ UNCHANGED fence
    /\ UNCHANGED <<attached, buf_refs, buf_freed, calls>>

\* Mutant: probe signals fence[0].
ProbeFenceSignal_Fence0 ==
    /\ probe_pc = "fence_signal"
    /\ \/ /\ fence' = [fence EXCEPT ![0] = TRUE]
          /\ probe_pc' = "alloc_buffer"
          /\ UNCHANGED <<probe_ret, probe_acq, probe_log, probe_fail>>
       \/ ProbeFails("fence_signal", <<>>, "err_fence_signal") /\ UNCHANGED fence
    /\ UNCHANGED <<attached, buf_refs, buf_freed, calls>>

\* ret = dma_fence_signal(fence[1])
ProbeFenceSignal ==
    /\ probe_pc = "fence_signal"
    /\ \/ /\ fence' = [fence EXCEPT ![1] = TRUE]
          /\ probe_pc' = "alloc_buffer"
          /\ UNCHANGED <<probe_ret, probe_acq, probe_log, probe_fail>>
       \/ ProbeFails("fence_signal", <<>>, "err_fence_signal") /\ UNCHANGED fence
    /\ UNCHANGED <<attached, buf_refs, buf_freed, calls>>

\* buffer = kzalloc(...)
ProbeAllocBuffer ==
    /\ probe_pc = "alloc_buffer"
    /\ \/ ProbeOk("buffer", "alloc_coherent")
       \/ ProbeFails("alloc_buffer", <<>>, "err_alloc_buffer")
    /\ UNCHANGED <<fence, attached, buf_refs, buf_freed, calls>>

\* Mutant: a failed dma_alloc_coherent does not free the descriptor.
ProbeAllocCoherent_Leaks ==
    /\ probe_pc = "alloc_coherent"
    /\ \/ ProbeOk("coherent", "dma_buf_export")
       \/ ProbeFails("alloc_coherent", <<>>, "err_alloc_coherent")
    /\ UNCHANGED <<fence, attached, buf_refs, buf_freed, calls>>

\* vaddr = dma_alloc_coherent(...); on failure kfree(buffer) at once
\* ("Avoid double free if cdev_add fails").
ProbeAllocCoherent ==
    /\ probe_pc = "alloc_coherent"
    /\ \/ ProbeOk("coherent", "dma_buf_export")
       \/ ProbeFails("alloc_coherent", <<"buffer">>, "err_alloc_coherent")
    /\ UNCHANGED <<fence, attached, buf_refs, buf_freed, calls>>

\* dmapp_dev->buf = dma_buf_export(&exp_info), which leaves one reference;
\* on failure dma_free_coherent and kfree(buffer) at once.
ProbeDmaBufExport ==
    /\ probe_pc = "dma_buf_export"
    /\ \/ ProbeOk("dma_buf", "cdev_add") /\ buf_refs' = 1
       \/ /\ ProbeFails("dma_buf_export", <<"coherent", "buffer">>, "err_dma_buf_export")
          /\ UNCHANGED buf_refs
    /\ UNCHANGED <<fence, attached, buf_freed, calls>>

\* ret = cdev_add(...); return 0: the device is attached.
ProbeCdevAdd ==
    /\ probe_pc = "cdev_add"
    /\ \/ /\ probe_acq' = Append(probe_acq, "cdev")
          /\ probe_pc' = "done"
          /\ probe_ret' = 0
          /\ attached' = TRUE
          /\ UNCHANGED <<probe_log, probe_fail>>
       \/ ProbeFails("cdev_add", <<>>, "err_cdev_add") /\ UNCHANGED attached
    /\ UNCHANGED <<fence, buf_refs, buf_freed, calls>>

\* err_cdev_add: dma_buf_put(dmapp_dev->buf); a release of the buffer frees
\* the coherent memory and then the descriptor.
ErrCdevAdd ==
    /\ probe_pc = "err_cdev_add"
    /\ \E o \in FPut(buf_refs, buf_freed) :
          /\ buf_refs' = o[1]
          /\ buf_freed' = o[2]
          /\ Unwind(IF o[2] > buf_freed THEN <<"dma_buf", "coherent", "buffer">>
                                        ELSE <<"dma_buf">>,
                    "err_dma_buf_export")
    /\ UNCHANGED <<fence, attached, calls>>

\* err_dma_buf_export, err_alloc_coherent, err_alloc_buffer,
\* err_fence_signal: dma_fence_put(fence[1])
ErrFenceSignal ==
    /\ probe_pc \in {"err_dma_buf_export", "err_alloc_coherent", "err_alloc_buffer",
                     "err_fence_signal"}
    /\ Unwind(<<"fence1">>, "err_fence_1_alloc")
    /\ UNCHANGED <<fence, attached, buf_refs, buf_freed, calls>>

\* err_fence_1_alloc: dma_fence_put(fence[0])
ErrFence1Alloc ==
    /\ probe_pc = "err_fence_1_alloc"
    /\ Unwind(<<"fence0">>, "err_fence_0_alloc")
    /\ UNCHANGED <<fence, attached, buf_refs, buf_freed, calls>>

\* err_fence_0_alloc: device_destroy(...)
ErrFence0Alloc ==
    /\ probe_pc = "err_fence_0_alloc"
    /\ Unwind(<<"device">>, "err_device_create")
    /\ UNCHANGED <<fence, attached, buf_refs, buf_freed, calls>>

\* err_device_create: unregister_chrdev_region(...)
ErrDeviceCreate ==
    /\ probe_pc = "err_device_create"
    /\ Unwind(<<"chrdev_region">>, "err_alloc_chrdev")
    /\ UNCHANGED <<fence, attached, buf_refs, buf_freed, calls>>

\* err_alloc_chrdev: kfree(dmapp_dev); return ret
ErrAllocChrdev ==
    /\ probe_pc = "err_alloc_chrdev"
    /\ Unwind(<<"dmapp_dev">>, "failed")
    /\ UNCHANGED <<fence, attached, buf_refs, buf_freed, calls>>

ProbeNext ==
    \/ ProbeAllocDev
    \/ ProbeAllocChrdev
    \/ ProbeDeviceCreate
    \/ ProbeFence0Alloc
    \/ ProbeFence1Alloc
    \/ ProbeFenceSignal
    \/ ProbeAllocBuffer
    \/ ProbeAllocCoherent
    \/ ProbeDmaBufExport
    \/ ProbeCdevAdd
    \/ ErrCdevAdd
    \/ ErrFenceSignal
    \/ ErrFence1Alloc
    \/ ErrFence0Alloc
    \/ ErrDeviceCreate
    \/ ErrAllocChrdev

\* Before probe: nothing is allocated, the device is not attached.
ProbeInit ==
    /\ user = [p \in 0..1 |-> NULL]
    /\ fence = [p \in 0..1 |-> FALSE]
    /\ fd = [t \in Threads |-> t]
    /\ Quiescent
    /\ attached = FALSE
    /\ buf_refs = 0
    /\ probe_pc = "alloc_dev"
    /\ probe_ret = 0
    /\ probe_acq = <<>>
    /\ probe_log = <<>>
    /\ probe_fail = "none"

\* The whole life of the device: probe, and after a successful probe the
\* calls of BufNext up to remove.
LifeNext == ProbeNext \/ BufNext

LifeSpec == ProbeInit /\ [][LifeNext]_vars

(***************************************************************************)
(* dmapp_buf_map and dmapp_buf_unmap, the map_dma_buf and unmap_dma_buf    *)
(* operations of the exported buffer, which the dma-buf core calls for an  *)
(* importing device's attachment. map is taken one step per acquisition    *)
(* and per error label.                                                    *)
(***************************************************************************)

\* What a map or unmap leaves alone: the character device, the buffer
\* object and its contents, probe and the echo module.
besides == <<shared, spinlock, private_data, fd, pc, locals, lastRet, access, history,
              dmabuf, buf_data, probe, ekm>>

\* The step of attachment i succeeds and has acquired r; map goes on at next.
MapOk(i, r, next) ==
    /\ map_acq' = [map_acq EXCEPT ![i] = Append(@, r)]
    /\ map_pc' = [map_pc EXCEPT ![i] = next]
    /\ UNCHANGED <<map_err, map_log>>

\* An error label of map: release r and go on at next.
MapUnwind(i, r, next) ==
    /\ map_log' = [map_log EXCEPT ![i] = Append(@, r)]
    /\ map_pc' = [map_pc EXCEPT ![i] = next]
    /\ UNCHANGED map_acq

\* Entry of dmapp_buf_map for an attachment that holds no mapping:
\* sgt = kzalloc(...), or return ERR_PTR(-ENOMEM).
MapAllocSgt(i) ==
    /\ attached
    /\ map_pc[i] \in {"unused", "failed", "unmapped"}
    /\ map_log' = [map_log EXCEPT ![i] = <<>>]
    /\ \/ /\ map_acq' = [map_acq EXCEPT ![i] = <<"sgt">>]
          /\ map_pc' = [map_pc EXCEPT ![i] = "sg_alloc_table"]
          /\ map_err' = [map_err EXCEPT ![i] = 0]
       \/ /\ map_acq' = [map_acq EXCEPT ![i] = <<>>]
          /\ map_pc' = [map_pc EXCEPT ![i] = "failed"]
          /\ map_err' = [map_err EXCEPT ![i] = -ENOMEM]
    /\ UNCHANGED besides

\* if (sg_alloc_table(sgt, 1, GFP_KERNEL)) goto err_sg_alloc_table
MapSgAllocTable(i) ==
    /\ map_pc[i] = "sg_alloc_table"
    /\ \/ MapOk(i, "sg_table", "dma_map_sg")
       \/ /\ map_pc' = [map_pc EXCEPT ![i] = "err_sg_alloc_table"]
          /\ UNCHANGED <<map_err, map_acq, map_log>>
    /\ UNCHANGED besides

\* Mutant: a failed dma_map_sg jumps past sg_free_table.
MapDmaMapSg_Leaks(i) ==
    /\ map_pc[i] = "dma_map_sg"
    /\ \/ MapOk(i, "dma_mapping", "mapped")
       \/ /\ map_pc' = [map_pc EXCEPT ![i] = "err_sg_alloc_table"]
          /\ UNCHANGED <<map_err, map_acq, map_log>>
    /\ UNCHANGED besides

\* sg_set_page(...); if (dma_map_sg(...) == 0) goto err_dma_map_sg;
\* return sgt
MapDmaMapSg(i) ==
    /\ map_pc[i] = "dma_map_sg"
    /\ \/ MapOk(i, "dma_mapping", "mapped")
       \/ /\ map_pc' = [map_pc EXCEPT ![i] = "err_dma_map_sg"]
          /\ UNCHANGED <<map_err, map_acq, map_log>>
    /\ UNCHANGED besides

\* err_dma_map_sg: sg_free_table(sgt)
ErrDmaMapSg(i) ==
    /\ map_pc[i] = "err_dma_map_sg"
    /\ MapUnwind(i, "sg_table", "err_sg_alloc_table")
    /\ UNCHANGED map_err
    /\ UNCHANGED besides

\* err_sg_alloc_table: kfree(sgt); return ERR_PTR(-ENOMEM)
ErrSgAllocTable(i) ==
    /\ map_pc[i] = "err_sg_alloc_table"
    /\ MapUnwind(i, "sgt", "failed")
    /\ map_err' = [map_err EXCEPT ![i] = -ENOMEM]
    /\ UNCHANGED besides

\* dmapp_buf_unmap of the table a map returned: dma_unmap_sg(...);
\* sg_free_table(sgt); kfree(sgt)
BufUnmap(i) ==
    /\ map_pc[i] = "mapped"
    /\ map_log' = [map_log EXCEPT ![i] = @ \o <<"dma_mapping", "sg_table", "sgt">>]
    /\ map_pc' = [map_pc EXCEPT ![i] = "unmapped"]
    /\ UNCHANGED <<map_err, map_acq>>
    /\ UNCHANGED besides

MapNext ==
    \E i \in Importers :
        \/ MapAllocSgt(i)
        \/ MapSgAllocTable(i)
        \/ MapDmaMapSg(i)
        \/ ErrDmaMapSg(i)
        \/ ErrSgAllocTable(i)
        \/ BufUnmap(i)

MapSpec == Init /\ [][MapNext]_vars

(***************************************************************************)
(* The echo kernel module (ekm): ekm_cdev_open, ekm_cdev_release and       *)
(* ekm_cdev_ioctl. The two critical sections are single assignments under  *)
(* the module's spinlock and are taken as one step each.                   *)
(***************************************************************************)

\* What the echo module never touches.
dmapp == <<shared, spinlock, private_data, fd, parity, signal_fence, wait_fence, ret,
           history, access, dmabuf, buf_data, probe, sgmap>>

\* The echo call of thread t returns r, having copied out to its caller.
EkmReturn(t, call, r, out) ==
    /\ pc' = [pc EXCEPT ![t] = "idle"]
    /\ lastRet' = [thread |-> t, call |-> call, at |-> pc[t], cmd |-> cmd[t], val |-> r]
    /\ cmd' = [cmd EXCEPT ![t] = 0]
    /\ ekm_temp' = [ekm_temp EXCEPT ![t] = 0]
    /\ ekm_arg' = [ekm_arg EXCEPT ![t] = 0]
    /\ ekm_window' = [ekm_window EXCEPT ![t] = {}]
    /\ ekm_out' = out

\* ekm_cdev_open: file->private_data = ekm_dev; return 0.
EkmOpen(t) ==
    /\ pc[t] = "idle"
    /\ ~ekm_open[fd[t]]
    /\ ekm_open' = [ekm_open EXCEPT ![fd[t]] = TRUE]
    /\ EkmReturn(t, "ekm_open", 0, <<>>)
    /\ UNCHANGED <<dmapp, ekm_data, ekm_last>>

\* ekm_cdev_release: return 0.
EkmRelease(t) ==
    /\ pc[t] = "idle"
    /\ ekm_open[fd[t]]
    /\ ekm_open' = [ekm_open EXCEPT ![fd[t]] = FALSE]
    /\ EkmReturn(t, "ekm_release", 0, <<>>)
    /\ UNCHANGED <<dmapp, ekm_data, ekm_last>>

\* EKM_IOCTL_GET_DATA: spin_lock; temp = ekm_dev->data; spin_unlock.
EkmGetRead(t) ==
    /\ pc[t] = "idle"
    /\ ekm_open[fd[t]]
    /\ cmd' = [cmd EXCEPT ![t] = EKM_IOCTL_GET_DATA]
    /\ ekm_temp' = [ekm_temp EXCEPT ![t] = ekm_data]
    /\ ekm_window' = [ekm_window EXCEPT ![t] = {ekm_last.val}]
    /\ pc' = [pc EXCEPT ![t] = "ekm_get_copy"]
    /\ lastRet' = NoRet
    /\ ekm_out' = <<>>
    /\ UNCHANGED <<dmapp, ekm_open, ekm_data, ekm_arg, ekm_last>>

\* copy_to_user(arg, &temp, ...): return -EFAULT when it fails, else 0 with
\* temp in the caller's struct.
EkmGetCopy(t) ==
    /\ pc[t] = "ekm_get_copy"
    /\ \/ EkmReturn(t, "ekm_ioctl", 0, <<ekm_temp[t]>>)
       \/ EkmReturn(t, "ekm_ioctl", -EFAULT, <<>>)
    /\ UNCHANGED <<dmapp, ekm_open, ekm_data, ekm_last>>

\* EKM_IOCTL_SET_DATA with v in the caller's struct: copy_from_user(&temp,
\* arg, ...) succeeds.
EkmSetCopy(t, v) ==
    /\ pc[t] = "idle"
    /\ ekm_open[fd[t]]
    /\ cmd' = [cmd EXCEPT ![t] = EKM_IOCTL_SET_DATA]
    /\ ekm_arg' = [ekm_arg EXCEPT ![t] = v]
    /\ ekm_temp' = [ekm_temp EXCEPT ![t] = v]
    /\ pc' = [pc EXCEPT ![t] = "ekm_set_store"]
    /\ lastRet' = NoRet
    /\ ekm_out' = <<>>
    /\ UNCHANGED <<dmapp, ekm_open, ekm_data, ekm_last, ekm_window>>

\* Mutant: the failed copy is stored all the same.
EkmSetFault_Stores(t) ==
    /\ pc[t] = "idle"
    /\ ekm_open[fd[t]]
    /\ pc' = pc
    /\ lastRet' = [thread |-> t, call |-> "ekm_ioctl", at |-> "idle",
                   cmd |-> EKM_IOCTL_SET_DATA, val |-> -EFAULT]
    /\ ekm_out' = <<>>
    /\ ekm_data' = 0
    /\ UNCHANGED <<dmapp, cmd, ekm_open, ekm_arg, ekm_temp, ekm_last,
                   ekm_window>>

\* EKM_IOCTL_SET_DATA: copy_from_user fails: return -EFAULT.
EkmSetFault(t) ==
    /\ pc[t] = "idle"
    /\ ekm_open[fd[t]]
    /\ pc' = pc
    /\ lastRet' = [thread |-> t, call |-> "ekm_ioctl", at |-> "idle",
                   cmd |-> EKM_IOCTL_SET_DATA, val |-> -EFAULT]
    /\ ekm_out' = <<>>
    /\ UNCHANGED <<dmapp, cmd, ekm_open, ekm_data, ekm_arg, ekm_temp, ekm_last,
                   ekm_window>>

\* Mutant: the store is left out.
EkmStore_Keep(data, temp) == data

\* ekm_dev->data = temp
EkmStore(data, temp) == temp

\* spin_lock; ekm_dev->data = temp; spin_unlock; return 0. The set-data has
\* succeeded: the value its caller passed is the last one set, and every
\* get-data under way has been overtaken by it.
EkmSetStore(t) ==
    /\ pc[t] = "ekm_set_store"
    /\ ekm_data' = EkmStore(ekm_data, ekm_temp[t])
    /\ ekm_last' = [val |-> ekm_arg[t], by |-> fd[t]]
    /\ pc' = [pc EXCEPT ![t] = "idle"]
    /\ lastRet' = [thread |-> t, call |-> "ekm_ioctl", at |-> pc[t], cmd |-> cmd[t],
                   val |-> 0]
    /\ cmd' = [cmd EXCEPT ![t] = 0]
    /\ ekm_temp' = [ekm_temp EXCEPT ![t] = 0]
    /\ ekm_arg' = [ekm_arg EXCEPT ![t] = 0]
    /\ ekm_window' = [s \in Threads |->
                        IF s # t /\ pc[s] = "ekm_get_copy"
                        THEN ekm_window[s] \cup {ekm_arg[t]}
                        ELSE ekm_window[s]]
    /\ ekm_out' = <<>>
    /\ UNCHANGED <<dmapp, ekm_open>>

\* default: return -ENOTTY.
EkmUnknown(t, c) ==
    /\ pc[t] = "idle"
    /\ ekm_open[fd[t]]
    /\ c \notin {EKM_IOCTL_GET_DATA, EKM_IOCTL_SET_DATA}
    /\ pc' = pc
    /\ lastRet' = [thread |-> t, call |-> "ekm_ioctl", at |-> "idle", cmd |-> c,
                   val |-> -ENOTTY]
    /\ ekm_out' = <<>>
    /\ UNCHANGED <<dmapp, cmd, ekm_open, ekm_data, ekm_arg, ekm_temp, ekm_last,
                   ekm_window>>

EkmNext ==
    \E t \in Threads :
        \/ EkmOpen(t)
        \/ EkmRelease(t)
        \/ EkmGetRead(t)
        \/ EkmGetCopy(t)
        \/ \E v \in Values : EkmSetCopy(t, v)
        \/ EkmSetFault(t)
        \/ EkmSetStore(t)
        \/ \E c \in EkmCmds : EkmUnknown(t, c)

EkmSpec == Init /\ [][EkmNext]_vars

(***************************************************************************)
(* Two threads of one process issue their calls on the same open file.     *)
(***************************************************************************)

\* The file of each thread when threads 1 and 2 share file 1.
SharedFd(t) == IF t = 1 THEN 1 ELSE t - 1

\* State after a successful probe, with threads 1 and 2 on one file.
ShareInit ==
    /\ user = [p \in 0..1 |-> NULL]
    /\ fence = [p \in 0..1 |-> p = 1]
    /\ fd = [t \in Threads |-> SharedFd(t)]
    /\ Quiescent
    /\ ProbeDone

ShareSpec == ShareInit /\ [][Next]_vars

(***************************************************************************)
(* The user-space client loop: open, then lock / unlock for ever.          *)
(***************************************************************************)

\* The next request of the client loop: unlock after a successful lock, lock
\* otherwise (the loop learns from the return values whether it holds the
\* turn, which is what the flag of its user records).
ClientCmd(t) ==
    IF is_locked[fd[t]] THEN DMAPP_IOCTL_BUFFER_UNLOCK ELSE DMAPP_IOCTL_BUFFER_LOCK

\* A step of a client: it opens the device while a slot is free, and then
\* only locks and unlocks; it is never interrupted and never closes.
PingPongStep(t) ==
    \/ (\E p \in 0..1 : user[p] = NULL) /\ OpenAlloc(t)
    \/ OpenSpinLock(t)
    \/ OpenAssign(t)
    \/ IoctlSpinLock(t, ClientCmd(t))
    \/ IoctlValidate(t)
    \/ LockWait(t)
    \/ LockSpinLock(t)
    \/ LockRearm(t)
    \/ UnlockSignal(t)
    \/ UnlockSpinLock(t)
    \/ UnlockClear(t)

PingPongNext == \E t \in Threads : PingPongStep(t)

PingPongSpec ==
    Init /\ [][PingPongNext]_vars /\ \A t \in Threads : WF_vars(PingPongStep(t))

(***************************************************************************)
(* The client loop with its accesses to the mapped buffer: between a lock  *)
(* that returned success and the unlock that follows it.                   *)
(***************************************************************************)

\* The client on thread t is between its successful lock and its unlock.
HoldsTurn(t) == pc[t] = "idle" /\ private_data[fd[t]] /\ is_locked[fd[t]]

\* The client reads the buffer ("print input", "print output").
BufRead(t) ==
    /\ HoldsTurn(t)
    /\ access' = [thread |-> t, op |-> "read", val |-> buf_data]
    /\ lastRet' = NoRet
    /\ UNCHANGED <<shared, spinlock, private_data, fd, pc, locals, history, dmabuf,
                   buf_data,
                   beyond>>

\* The client writes v to the buffer ("do some work").
BufWrite(t, v) ==
    /\ HoldsTurn(t)
    /\ buf_data' = v
    /\ touched' = TRUE
    /\ access' = [thread |-> t, op |-> "write", val |-> v]
    /\ lastRet' = NoRet
    /\ UNCHANGED <<shared, spinlock, private_data, fd, pc, locals, lastAcq, firstAcq,
                   released, handoff, dmabuf,
                   beyond>>

HandoffNext ==
    \/ PingPongNext
    \/ \E t \in Threads : BufRead(t)
    \/ \E t \in Threads, v \in Values : BufWrite(t, v)

HandoffSpec == Init /\ [][HandoffNext]_vars

(***************************************************************************)
(* Vocabulary of the properties                                            *)
(***************************************************************************)

\* File f occupies a participant slot.
Registered(f) == user[0] = f \/ user[1] = f

\* The index of the slot that holds file f (f is registered).
SlotOf(f) == CHOOSE p \in 0..1 : user[p] = f

\* Thread t is inside an unlock call or inside release.
Releasing(t) ==
    \/ pc[t] \in {"rel_disconnect", "rel_check", "rel_signal",
                  "unlock_signal", "unlock_spin", "unlock_clear"}
    \/ pc[t] = "ioctl_validate" /\ cmd[t] = DMAPP_IOCTL_BUFFER_UNLOCK

\* The participant on file f is inside a turn: its lock call has returned
\* success and it has neither called unlock nor closed since.
InTurn(f) ==
    /\ Registered(f)
    /\ is_locked[f]
    /\ \A t \in Threads : fd[t] = f => ~Releasing(t)

\* The step completes an acquisition by thread t (the lock call re-arms the
\* fence, sets the flag and returns).
Acquire(t) == pc[t] = "lock_rearm" /\ pc'[t] = "idle"

\* The last step was thread t's lock call returning success.
LockReturnedOk(t) ==
    /\ lastRet.thread = t
    /\ lastRet.call = "ioctl"
    /\ lastRet.cmd = DMAPP_IOCTL_BUFFER_LOCK
    /\ lastRet.val = 0

(***************************************************************************)
(* C1 - C10                                                                *)
(***************************************************************************)

\* C1: mutual exclusion of turns. In no reachable state are two
\* participants both inside a turn.
C1_MutualExclusion ==
    \A f, g \in Files : f # g => ~(InTurn(f) /\ InTurn(g))

\* C1 witness: one participant is inside its turn while the other one is
\* blocked in its lock call.
C1_Witness ==
    \E t, s \in Threads :
        /\ InTurn(fd[t])
        /\ Registered(fd[s])
        /\ pc[s] = "lock_wait"
        /\ ~fence[wait_fence[s]]

\* C2: strict alternation. Every completed acquisition is by the parity
\* that did not make the previous one, and the previous holder has given
\* its turn up (unlock, or close inside the turn) in between.
C2_StrictAlternation ==
    [][\A t \in Threads :
          Acquire(t) => /\ lastAcq # parity[t]
                        /\ (lastAcq # -1 => released)]_vars

\* C2 witness: parity 0 has just completed an acquisition that follows one
\* by parity 1.
C2_Witness ==
    \E t \in Threads :
        /\ LockReturnedOk(t)
        /\ user[0] = fd[t]
        /\ lastAcq = 0
        /\ firstAcq = 1
        /\ ~released

\* C3 as stated: the first successful lock after attach is by parity 0.
C3_EvenGoesFirst == firstAcq \in {-1, 0}

\* C3 amended: odd goes first. The first acquisition after attach is by
\* parity 1; until it happens fence[1] is signaled (parity 1 does not wait)
\* and fence[0] is pending (parity 0 blocks); and while parity 1 holds a
\* turn it has not given up, fence[0] stays pending.
C3_OddGoesFirst ==
    /\ firstAcq \in {-1, 1}
    /\ (firstAcq = -1 => fence[1] /\ ~fence[0])
    /\ (lastAcq = 1 /\ ~released => ~fence[0])

\* C3 witness: parity 1 holds the first turn and the participant of parity
\* 0 is blocked in its lock call.
C3_Witness ==
    \E t, s \in Threads :
        /\ user[1] = fd[t] /\ InTurn(fd[t])
        /\ user[0] = fd[s] /\ pc[s] = "lock_wait"
        /\ firstAcq = 1 /\ lastAcq = 1 /\ ~released
        /\ ~fence[0]

\* A release on behalf of a participant that closed inside its turn is
\* under way and is to signal fence[p].
AbandonPending(p) ==
    \E t \in Threads : pc[t] \in {"rel_check", "rel_signal"} /\ signal_fence[t] = p

\* The last step was thread t's lock call returning the interrupted-wait
\* error.
LockReturnedIntr(t) ==
    /\ lastRet.thread = t
    /\ lastRet.call = "ioctl"
    /\ lastRet.cmd = DMAPP_IOCTL_BUFFER_LOCK
    /\ lastRet.val = -ERESTARTSYS

\* C4: abandonment liveness. When a participant closes inside its turn, the
\* other parity's wait fence becomes signaled; and every lock call that
\* waits on a signaled fence, the pending or the next one of the remaining
\* participant included, returns (success, unless its wait is interrupted).
C4_AbandonmentLiveness ==
    /\ \A p \in 0..1 : AbandonPending(p) ~> fence[p]
    /\ \A t \in Threads :
          (pc[t] = "lock_wait" /\ fence[wait_fence[t]])
              ~> (LockReturnedOk(t) \/ LockReturnedIntr(t))

\* C4 witness: a participant has closed inside its turn, the signal on its
\* behalf is about to be sent, and the other participant is blocked in lock
\* on that fence.
C4_Witness ==
    \E t, s \in Threads :
        /\ pc[t] = "rel_signal"
        /\ pc[s] = "lock_wait"
        /\ wait_fence[s] = signal_fence[t]
        /\ ~fence[wait_fence[s]]

BothOccupied == user[0] # NULL /\ user[1] # NULL

\* C5: ping-pong progress. With both slots occupied by clients that loop
\* over lock and unlock, every pending lock call returns success and each
\* parity completes an acquisition again and again.
C5_PingPongProgress ==
    /\ \A t \in Threads :
          (BothOccupied /\ pc[t] = "lock_wait") ~> LockReturnedOk(t)
    /\ \A p \in 0..1 :
          BothOccupied ~> (lastAcq = p /\ \E t \in Threads : LockReturnedOk(t))

\* C5 witness: both slots are occupied, parity 0 has just acquired after
\* parity 1, and parity 1 is already blocked in its next lock call.
C5_Witness ==
    \E t, s \in Threads :
        /\ BothOccupied
        /\ user[0] = fd[t] /\ LockReturnedOk(t) /\ lastAcq = 0
        /\ user[1] = fd[s] /\ pc[s] = "lock_wait"

\* The last step was a return of thread t from the call, at the place `at`,
\* of an ioctl with code c (0 for open and release), with value v.
Returned(t, call, at, c, v) ==
    lastRet = [thread |-> t, call |-> call, at |-> at, cmd |-> c, val |-> v]

\* Thread t takes a step of a call.
StepOf(t) == pc'[t] # pc[t] \/ lastRet'.thread = t

\* C6: capacity. An open that finds both slots occupied returns -EINVAL
\* without opening the file, no step of an open made while both slots are
\* occupied changes a slot, a fence or a registered participant's flag, and
\* there are never more than two open handles.
C6_Capacity ==
    /\ [](Cardinality({f \in Files : private_data[f]}) <= 2)
    /\ [][\A t \in Threads :
            /\ (pc[t] = "open_assign" /\ StepOf(t) /\ BothOccupied)
                  => /\ Returned(t, "open", "open_assign", 0, -EINVAL)'
                     /\ ~private_data'[fd[t]]
            /\ (pc[t] \in {"idle", "open_lock", "open_assign"} /\ StepOf(t)
                  /\ ~private_data[fd[t]] /\ BothOccupied)
                  => /\ user' = user
                     /\ fence' = fence
                     /\ \A p \in 0..1 : is_locked'[user[p]] = is_locked[user[p]]]_vars

\* C6 witness: a third open has just failed with both slots occupied.
C6_Witness ==
    \E t \in Threads :
        /\ Returned(t, "open", "open_assign", 0, -EINVAL)
        /\ BothOccupied
        /\ ~private_data[fd[t]]

\* C7: first-free slot assignment. A successful open registers the file in
\* slot 0 if that slot is free and in slot 1 otherwise, and leaves the other
\* slot as it is.
C7_FirstFreeSlot ==
    [][\A t \in Threads :
          (pc[t] = "open_assign" /\ StepOf(t) /\ lastRet'.val = 0)
             => LET p == IF user[0] = NULL THEN 0 ELSE 1 IN
                /\ user[p] = NULL
                /\ user'[p] = fd[t]
                /\ user'[1 - p] = user[1 - p]
                /\ private_data'[fd[t]]]_vars

\* C7 witness: an open has just been given slot 0 while slot 1 is held by a
\* participant inside its turn (so slot 0 is one that was freed).
C7_Witness ==
    \E t \in Threads :
        /\ Returned(t, "open", "open_assign", 0, 0)
        /\ user[0] = fd[t]
        /\ user[1] # NULL /\ InTurn(user[1])

\* C8: lock is idempotent. A lock call by a registered participant whose
\* flag is set returns 0 from the first critical section, never reaching the
\* wait, and the call changes no slot, fence or flag.
C8_LockIdempotent ==
    [][\A t \in Threads :
          /\ (pc[t] = "ioctl_validate" /\ StepOf(t) /\ Registered(fd[t])
                /\ cmd[t] = DMAPP_IOCTL_BUFFER_LOCK /\ is_locked[fd[t]])
                => /\ Returned(t, "ioctl", "ioctl_validate", DMAPP_IOCTL_BUFFER_LOCK, 0)'
                   /\ UNCHANGED <<user, fence, is_locked>>
          /\ (pc[t] = "idle" /\ pc'[t] = "ioctl_validate")
                => UNCHANGED <<user, fence, is_locked>>]_vars

\* C8 witness: a lock call of a participant inside its turn has just
\* returned 0 from the first critical section.
C8_Witness ==
    \E t \in Threads :
        /\ Returned(t, "ioctl", "ioctl_validate", DMAPP_IOCTL_BUFFER_LOCK, 0)
        /\ InTurn(fd[t])

\* C9: unlock is idempotent. An unlock call by a registered participant
\* whose flag is clear returns 0 from the first critical section, never
\* reaching the signal, and the call changes no slot, fence or flag.
C9_UnlockIdempotent ==
    [][\A t \in Threads :
          (pc[t] = "ioctl_validate" /\ StepOf(t) /\ Registered(fd[t])
             /\ cmd[t] = DMAPP_IOCTL_BUFFER_UNLOCK /\ ~is_locked[fd[t]])
             => /\ Returned(t, "ioctl", "ioctl_validate", DMAPP_IOCTL_BUFFER_UNLOCK, 0)'
                /\ UNCHANGED <<user, fence, is_locked, history>>]_vars

\* C9 witness: an unlock call of a participant outside a turn has just
\* returned 0 from the first critical section, the other participant being
\* inside its turn.
C9_Witness ==
    \E t, s \in Threads :
        /\ Returned(t, "ioctl", "ioctl_validate", DMAPP_IOCTL_BUFFER_UNLOCK, 0)
        /\ Registered(fd[t]) /\ ~is_locked[fd[t]]
        /\ InTurn(fd[s])

\* C10: interrupted acquire. A lock call whose wait is interrupted returns
\* -ERESTARTSYS, and no step of a lock call up to and including the
\* interrupted wait changes a slot, a fence, a flag, the spinlock's being
\* free on return, or which files are open: the state the retry finds is the
\* state the interrupted call found.
C10_InterruptedAcquire ==
    [][\A t \in Threads :
          /\ (pc[t] = "lock_wait" /\ pc'[t] = "idle")
                => /\ Returned(t, "ioctl", "lock_wait", DMAPP_IOCTL_BUFFER_LOCK, -ERESTARTSYS)'
                   /\ ~is_locked'[fd[t]]
                   /\ UNCHANGED <<user, fence, is_locked, spinlock, private_data, history>>
          /\ (pc[t] = "ioctl_validate" /\ pc'[t] = "lock_wait")
                => UNCHANGED <<user, fence, is_locked, private_data, history>>
          /\ (pc[t] = "idle" /\ pc'[t] = "ioctl_validate")
                => UNCHANGED <<user, fence, is_locked, private_data, history>>]_vars

\* C10 witness: a lock call has just returned -ERESTARTSYS although its
\* fence is signaled; the fence is still signaled and the flag still clear.
C10_Witness ==
    \E t \in Threads : \E p \in 0..1 :
        /\ Returned(t, "ioctl", "lock_wait", DMAPP_IOCTL_BUFFER_LOCK, -ERESTARTSYS)
        /\ user[p] = fd[t]
        /\ fence[p]
        /\ ~is_locked[fd[t]]

(***************************************************************************)
(* C11 - C20                                                               *)
(***************************************************************************)

\* C11 as stated: an unlock whose target fence was already signaled (its
\* dma_fence_signal was refused) still clears the caller's in-turn flag and
\* returns success.
C11_DuplicateNotEscalated ==
    [][\A t \in Threads :
          (pc[t] = "unlock_clear" /\ ret[t] = -EINVAL /\ StepOf(t))
          => /\ ~is_locked'[fd[t]]
             /\ lastRet'.thread = t /\ lastRet'.val = 0]_vars

\* C11 amended: a duplicate signal is reported to the caller. An unlock
\* call that finds its target fence already signaled leaves both fences and
\* all flags as they are and records -EINVAL; it then still clears the
\* caller's in-turn flag and returns that -EINVAL, while an unlock whose
\* signal went through returns 0.
C11_DuplicateSignal ==
    [][\A t \in Threads :
          /\ (pc[t] = "unlock_signal" /\ fence[signal_fence[t]] /\ StepOf(t))
             => /\ UNCHANGED shared
                /\ ret'[t] = -EINVAL
                /\ pc'[t] = "unlock_spin"
          /\ (pc[t] = "unlock_signal" /\ ~fence[signal_fence[t]] /\ StepOf(t))
             => ret'[t] = ret[t]
          /\ (pc[t] = "unlock_clear" /\ StepOf(t))
             => /\ ~is_locked'[fd[t]]
                /\ UNCHANGED <<user, fence>>
                /\ lastRet' = [thread |-> t, call |-> "ioctl", at |-> "unlock_clear",
                               cmd |-> DMAPP_IOCTL_BUFFER_UNLOCK, val |-> ret[t]]
                /\ ret[t] \in {0, -EINVAL}]_vars

\* C11 witness: an unlock whose signal was a duplicate has just returned
\* -EINVAL, with the caller's flag cleared and the target fence signaled.
C11_Witness ==
    /\ lastRet.at = "unlock_clear"
    /\ lastRet.val = -EINVAL
    /\ Registered(fd[lastRet.thread])
    /\ ~is_locked[fd[lastRet.thread]]
    /\ fence[1 - SlotOf(fd[lastRet.thread])]

\* C12: buffer lifetime. The buffer's memory is released at most once, and
\* only when the device has detached and every descriptor obtained through
\* get-buffer-handle has been closed; so closing a descriptor while the
\* device is attached never frees it.
C12_BufferLifetime ==
    /\ buf_freed <= 1
    /\ buf_freed > 0 => ~attached /\ buf_fds = 0

Reverse(s) == [i \in 1..Len(s) |-> s[Len(s) + 1 - i]]

\* Sequence s is the beginning of sequence r.
IsPrefix(s, r) == Len(s) <= Len(r) /\ s = SubSeq(r, 1, Len(s))

\* C17: attach unwinding. What probe has acquired is always the beginning
\* of its list of resources; once a step has failed, ret holds one of that
\* step's errors and what has been released so far is the beginning of the
\* acquisitions taken backwards; and when the failed probe has returned,
\* everything it acquired has been released exactly once, in reverse order
\* of acquisition, the device is not attached and the buffer has no
\* reference left.
C17_AttachUnwinding ==
    /\ IsPrefix(probe_acq, AllResources)
    /\ probe_pc \in ErrLabels \cup {"failed"}
         => /\ probe_fail \in ProbeSteps
            /\ probe_ret \in ProbeErrors(probe_fail)
            /\ IsPrefix(probe_log, Reverse(probe_acq))
    /\ probe_pc = "failed"
         => /\ probe_log = Reverse(probe_acq)
            /\ ~attached
            /\ buf_refs = 0
            /\ buf_freed <= 1

\* C17 witness: cdev_add has failed and probe has returned after releasing
\* the eight resources it had acquired.
C17_Witness ==
    /\ probe_pc = "failed"
    /\ probe_fail = "cdev_add"
    /\ probe_ret = -EBUSY
    /\ Len(probe_log) = 8
    /\ probe_log[1] = "dma_buf"
    /\ probe_log[8] = "dmapp_dev"

\* C18: echo module round trip. The module's value is always the one
\* passed to the last set-data that returned 0, or 42 when there has been
\* none; a get-data reads that value, whatever file it is called on, and
\* when it returns 0 its caller has received the value read, which is one
\* the module held during the call (the last one set, unless a set-data
\* completed while the get-data was under way).
C18_EchoRoundTrip ==
    /\ [](ekm_data = ekm_last.val)
    /\ [](ekm_last.by = NULL => ekm_last.val = EKM_DEFAULT)
    /\ [][\A t \in Threads :
            /\ (pc[t] = "idle" /\ pc'[t] = "ekm_get_copy")
                  => ekm_temp'[t] = ekm_last.val
            /\ (pc[t] = "ekm_get_copy" /\ pc'[t] = "idle" /\ lastRet'.val = 0)
                  => /\ ekm_out' = <<ekm_temp[t]>>
                     /\ ekm_temp[t] \in ekm_window[t]
                     /\ (ekm_window[t] = {ekm_last.val} => ekm_out' = <<ekm_last.val>>)
                     /\ UNCHANGED <<ekm_data, ekm_last>>]_vars

\* C18 witness: a get-data on one file has just returned the value 1 that
\* the last successful set-data stored through another file.
C18_Witness ==
    /\ lastRet.call = "ekm_ioctl"
    /\ lastRet.cmd = EKM_IOCTL_GET_DATA
    /\ lastRet.val = 0
    /\ ekm_out = <<1>>
    /\ ekm_last = [val |-> 1, by |-> 3 - fd[lastRet.thread]]
    /\ fd[lastRet.thread] \in {1, 2}

\* The program points at which a thread holds the device spinlock inside
\* one of the handlers' critical sections.
CriticalPcs == {"open_assign", "rel_disconnect", "ioctl_validate", "lock_rearm",
                "unlock_clear"}

\* C13: the device spinlock is never held across the blocking wait. No
\* thread waiting on its fence in a lock call holds the spinlock; whoever
\* holds it is inside a critical section, none of which blocks, so the
\* other participant's unlock, get-parity and get-buffer-size calls are
\* only ever delayed by a critical section and can run to completion.
C13_NoSpinlockAcrossWait ==
    /\ \A t \in Threads : pc[t] = "lock_wait" => spinlock # t
    /\ spinlock # NULL => pc[spinlock] \in CriticalPcs

\* C13 witness: one participant is blocked in lock on a pending fence while
\* the other one, inside its unlock call, holds the spinlock.
C13_Witness ==
    \E t, s \in Threads :
        /\ pc[t] = "lock_wait"
        /\ ~fence[wait_fence[t]]
        /\ spinlock = s
        /\ pc[s] = "unlock_clear"

\* C14: unknown control codes. A control call with a code other than the
\* five defined ones, on a registered handle, returns -ENOTTY and leaves
\* slots, in-turn flags and fences unchanged.
C14_UnknownCode ==
    [][\A t \in Threads :
          (/\ pc[t] = "ioctl_validate"
           /\ cmd[t] > DMAPP_IOCTL_BUFFER_UNLOCK
           /\ Registered(fd[t])
           /\ StepOf(t))
          => /\ lastRet' = [thread |-> t, call |-> "ioctl", at |-> "ioctl_validate",
                             cmd |-> cmd[t], val |-> -ENOTTY]
             /\ UNCHANGED shared]_vars

\* C14 witness: a call with an unknown code has just failed with -ENOTTY on
\* a registered handle, while both slots are taken and a turn is held.
C14_Witness ==
    /\ lastRet.call = "ioctl"
    /\ lastRet.cmd > DMAPP_IOCTL_BUFFER_UNLOCK
    /\ lastRet.val = -ENOTTY
    /\ Registered(fd[lastRet.thread])
    /\ BothOccupied
    /\ \E f \in Files : InTurn(f)

\* C15: fixed parity. A get-parity call on an open handle returns the index
\* of the slot that holds the handle, and no step changes the slot of a
\* handle that stays open: open handles are exactly the registered ones,
\* and a handle registered before and after a step is in the same slot.
C15_FixedParity ==
    /\ [](\A f \in Files :
             (private_data[f] <=> Registered(f)) /\ ~(user[0] = f /\ user[1] = f))
    /\ [][/\ \A f \in Files :
                Registered(f) /\ Registered(f)' => SlotOf(f)' = SlotOf(f)
          /\ \A t \in Threads :
                (/\ pc[t] = "ioctl_validate"
                 /\ cmd[t] = DMAPP_IOCTL_GET_BUFFER_PARITY
                 /\ Registered(fd[t])
                 /\ StepOf(t))
                => /\ lastRet' = [thread |-> t, call |-> "ioctl",
                                   at |-> "ioctl_validate",
                                   cmd |-> DMAPP_IOCTL_GET_BUFFER_PARITY,
                                   val |-> SlotOf(fd[t])]
                   /\ UNCHANGED shared]_vars

\* C15 witness: get-parity has just returned 1 to the holder of slot 1
\* after the participant of slot 0 has gone (slot 0 is free again).
C15_Witness ==
    \E t \in Threads :
        /\ Returned(t, "ioctl", "ioctl_validate", DMAPP_IOCTL_GET_BUFFER_PARITY, 1)
        /\ user[1] = fd[t]
        /\ user[0] = NULL
        /\ lastAcq = 0

\* C19: acquire / release wiring. A lock call by parity p gets past its
\* wait only when fence[p] is signaled; it completes in one step under the
\* device spinlock that re-arms fence[p] (pending), sets the caller's flag,
\* leaves fence[1-p] alone and returns 0. An effective unlock by parity p
\* first signals fence[1-p] with the flag still set, and clears the flag in
\* a later step under the spinlock that touches no fence.
C19_Wiring ==
    [][\A t \in Threads :
          LET f == fd[t]
              p == SlotOf(fd[t])
          IN /\ (pc[t] = "lock_wait" /\ pc'[t] = "lock_spin") => fence[p]
             /\ Acquire(t) =>
                   /\ spinlock = t /\ spinlock' = NULL
                   /\ fence[p] /\ ~fence'[p] /\ fence'[1 - p] = fence[1 - p]
                   /\ ~is_locked[f] /\ is_locked'[f]
                   /\ Returned(t, "ioctl", "lock_rearm", DMAPP_IOCTL_BUFFER_LOCK, 0)'
             /\ (pc[t] = "unlock_signal" /\ StepOf(t)) =>
                   /\ fence'[1 - p] /\ fence'[p] = fence[p]
                   /\ is_locked[f] /\ is_locked'[f]
                   /\ pc'[t] = "unlock_spin"
             /\ (pc[t] = "unlock_clear" /\ StepOf(t)) =>
                   /\ spinlock = t /\ spinlock' = NULL
                   /\ is_locked[f] /\ ~is_locked'[f]
                   /\ fence' = fence
                   /\ pc'[t] = "idle"]_vars

\* C19 witness: parity 0 has completed an acquisition (fence[0] re-armed,
\* flag set) and parity 1 has completed an effective unlock before it.
C19_Witness ==
    \E t \in Threads :
        /\ Returned(t, "ioctl", "lock_rearm", DMAPP_IOCTL_BUFFER_LOCK, 0)
        /\ user[0] = fd[t]
        /\ is_locked[fd[t]]
        /\ ~fence[0]
        /\ firstAcq = 1
        /\ user[1] # NULL /\ ~is_locked[user[1]]

\* C20 as stated: a lock call of parity p gets past its wait on fence[1-p]
\* being signaled, and the unlock of parity p leaves fence[p] signaled.
C20_RolesAsStated ==
    [][\A t \in Threads :
          LET p == SlotOf(fd[t])
          IN /\ (pc[t] = "lock_wait" /\ pc'[t] = "lock_spin") => fence[1 - p]
             /\ (pc[t] = "unlock_signal" /\ StepOf(t)) => fence'[p]]_vars

\* C20 amended: signal roles. fence[p] being signaled is the precondition
\* that lets parity p begin its turn (parity p waits on fence[p] whatever
\* fence[1-p] is), and the unlock of parity p is what makes fence[1-p]
\* signaled for the other side; it never signals fence[p].
C20_SignalRoles ==
    [][\A t \in Threads :
          LET p == SlotOf(fd[t])
          IN /\ (pc[t] = "lock_wait" /\ ~fence[p]) => ~(pc'[t] = "lock_spin")
             /\ (pc[t] = "lock_wait" /\ fence[p]) => ENABLED LockWait(t)
             /\ (pc[t] = "unlock_signal" /\ StepOf(t)) =>
                   /\ ~fence[1 - p] /\ fence'[1 - p]
                   /\ ~fence[p] /\ ~fence'[p]]_vars

\* C20 witness: parity 1 is past its wait (fence[1] signaled) while
\* fence[0] is pending, and no turn has been taken yet.
C20_Witness ==
    \E t \in Threads :
        /\ pc[t] = "lock_spin"
        /\ user[1] = fd[t]
        /\ fence[1] /\ ~fence[0]
        /\ firstAcq = -1

(***************************************************************************)
(* C21 - C30                                                               *)
(***************************************************************************)

\* C21: initial state. In the state a successful attach leaves (probe
\* returns 0), fence[1] is signaled, fence[0] is pending, both participant
\* slots are empty and no in-turn flag is set.
C21_InitialState ==
    [][(probe_pc = "cdev_add" /\ probe_pc' = "done") =>
          /\ attached' /\ probe_ret' = 0
          /\ fence'[1] /\ ~fence'[0]
          /\ \A p \in 0..1 : user'[p] = NULL
          /\ \A f \in Files : ~is_locked'[f]]_vars

\* C21 witness: probe has returned 0 after acquiring everything, and no
\* call has been made on the device yet.
C21_Witness ==
    /\ probe_pc = "done"
    /\ probe_acq = AllResources
    /\ probe_log = <<>>
    /\ attached
    /\ fence[1] /\ ~fence[0]
    /\ \A f \in Files : ~private_data[f]
    /\ \A t \in Threads : pc[t] = "idle"
    /\ lastRet = NoRet
    /\ buf_fds = 0

\* C22: re-arm frame rule. fence[p] goes from signaled back to pending only
\* in the step that completes a lock call (return 0, flag set) made on the
\* handle registered in slot p; that step leaves fence[1-p] as it is, and
\* no step of open, close, unlock, a query call, an interrupted lock or an
\* already-in-turn lock makes any fence pending.
C22_RearmFrame ==
    [][\A p \in 0..1 :
          /\ (fence[p] /\ ~fence'[p]) =>
                \E t \in Threads :
                    /\ Acquire(t)
                    /\ cmd[t] = DMAPP_IOCTL_BUFFER_LOCK
                    /\ user[p] = fd[t]
                    /\ is_locked'[fd[t]]
                    /\ lastRet' = [thread |-> t, call |-> "ioctl", at |-> "lock_rearm",
                                   cmd |-> DMAPP_IOCTL_BUFFER_LOCK, val |-> 0]
          /\ \A t \in Threads :
                (Acquire(t) /\ user[p] = fd[t]) => fence'[1 - p] = fence[1 - p]
          /\ \A t \in Threads :
                (StepOf(t) /\ ~Acquire(t)) => (fence[p] => fence'[p])]_vars

\* C22 witness: the lock call of parity 1 has just returned success with
\* fence[1] re-armed, while slot 0 is taken by a participant outside a turn
\* whose fence[0] is pending too.
C22_Witness ==
    \E t \in Threads :
        /\ Returned(t, "ioctl", "lock_rearm", DMAPP_IOCTL_BUFFER_LOCK, 0)
        /\ user[1] = fd[t]
        /\ ~fence[1] /\ ~fence[0]
        /\ user[0] # NULL /\ ~is_locked[user[0]]

\* Thread t is inside release.
InRelease(t) == pc[t] \in {"rel_disconnect", "rel_check", "rel_signal"}

\* C23: unregister frame rule. The step of close that disconnects clears
\* exactly the slot of the closing handle; no step of close changes the
\* other slot or any in-turn flag; a close by a participant whose flag is
\* false changes no fence, and a close by an in-turn participant of parity
\* p changes at most fence[1-p], and only to signaled.
C23_UnregisterFrame ==
    [][\A t \in Threads :
          LET f == fd[t] IN
          /\ (pc[t] = "rel_disconnect" /\ StepOf(t)) =>
                /\ Registered(f)
                /\ user'[SlotOf(f)] = NULL
                /\ user'[1 - SlotOf(f)] = user[1 - SlotOf(f)]
                /\ fence' = fence
                /\ signal_fence'[t] = (IF is_locked[f] THEN 1 - SlotOf(f) ELSE NoFence)
          /\ (InRelease(t) /\ StepOf(t)) =>
                /\ is_locked' = is_locked
                /\ \A q \in 0..1 : user'[q] # user[q] => user[q] = f
          /\ (pc[t] \in {"rel_check", "rel_signal"} /\ StepOf(t)) =>
                /\ user' = user
                /\ \A q \in 0..1 :
                      fence'[q] # fence[q] =>
                          is_locked[f] /\ q = signal_fence[t] /\ fence'[q]]_vars

\* C23 witness: the in-turn participant of parity 0 has closed and its close
\* has just signaled fence[1]; slot 0 is empty, slot 1 still holds the other
\* participant, which is outside a turn.
C23_Witness ==
    /\ lastRet.call = "release"
    /\ lastRet.at = "rel_signal"
    /\ lastRet.val = 0
    /\ lastAcq = 0
    /\ user[0] = NULL
    /\ user[1] # NULL /\ ~is_locked[user[1]]
    /\ fence[1] /\ ~fence[0]

\* C24: abandonment tolerates an already-signaled target. When release has
\* disconnected a user that was in its turn and finds the fence it is to
\* signal already signaled, it signals nothing: the fence stays signaled,
\* the slot stays cleared and the close returns 0.
C24_AbandonTolerant ==
    [][\A t \in Threads :
          (/\ pc[t] = "rel_check"
           /\ signal_fence[t] # NoFence
           /\ fence[signal_fence[t]]
           /\ StepOf(t))
          => /\ is_locked[fd[t]]
             /\ fence' = fence
             /\ user' = user /\ ~Registered(fd[t])
             /\ lastRet' = [thread |-> t, call |-> "release", at |-> "rel_check",
                            cmd |-> cmd[t], val |-> 0]]_vars

\* C24 witness: a close of a user that was in its turn has just returned 0
\* at the test of its target fence, which is signaled.
C24_Witness ==
    /\ lastRet.call = "release"
    /\ lastRet.at = "rel_check"
    /\ lastRet.val = 0
    /\ is_locked[fd[lastRet.thread]]
    /\ ~Registered(fd[lastRet.thread])
    /\ \E p \in 0..1 : user[p] = NULL /\ fence[1 - p] /\ lastAcq = p

\* C25: lock discipline. A step that writes a participant slot, writes the
\* in-turn flag of a registered participant or re-arms a fence is taken by
\* the thread that holds the device spinlock, inside one of its critical
\* sections; a step that signals a fence is a dma_fence_signal of unlock or
\* close, which takes that spinlock itself and so runs only while no thread
\* holds it.
C25_LockDiscipline ==
    [][\A t \in Threads :
          StepOf(t) =>
             /\ user' # user => spinlock = t /\ pc[t] \in CriticalPcs
             /\ (\E f \in Files : Registered(f) /\ is_locked'[f] # is_locked[f])
                   => spinlock = t /\ pc[t] \in CriticalPcs
             /\ pc[t] = "lock_rearm" => spinlock = t
             /\ (\E p \in 0..1 : fence[p] /\ ~fence'[p])
                   => spinlock = t /\ pc[t] = "lock_rearm"
             /\ (\E p \in 0..1 : ~fence[p] /\ fence'[p])
                   => spinlock = NULL /\ pc[t] \in {"unlock_signal", "rel_signal"}]_vars

\* C25 witness: an unlock call is about to signal its pending target fence
\* while another thread is inside a critical section, so the signal has to
\* wait for the spinlock.
C25_Witness ==
    \E t, s \in Threads :
        /\ t # s
        /\ pc[t] = "unlock_signal"
        /\ ~fence[signal_fence[t]]
        /\ spinlock = s
        /\ pc[s] \in CriticalPcs

\* Thread t is inside a call other than an effective lock: open, close,
\* unlock, a query call, a call with an unknown code, or a lock call on a
\* handle that is already in its turn.
InShortCall(t) ==
    \/ pc[t] \in {"open_lock", "open_assign", "rel_disconnect", "rel_check",
                  "rel_signal", "unlock_signal", "unlock_spin", "unlock_clear"}
    \/ /\ pc[t] = "ioctl_validate"
       /\ cmd[t] = DMAPP_IOCTL_BUFFER_LOCK => Registered(fd[t]) /\ is_locked[fd[t]]

\* C26: only acquire blocks. A thread sleeps on a fence only inside a lock
\* call that found its handle outside a turn; every open, close, unlock,
\* get-parity, get-buffer-size and already-in-turn lock call returns,
\* assuming only that the spinlock is granted to whoever asks for it, and
\* whether or not some participant stays blocked in lock for ever.
C26_OnlyAcquireBlocks ==
    /\ [](\A t \in Threads :
             pc[t] = "lock_wait" => cmd[t] = DMAPP_IOCTL_BUFFER_LOCK /\ ~InShortCall(t))
    /\ [][\A t \in Threads : InShortCall(t) => pc'[t] # "lock_wait"]_vars
    /\ \A t \in Threads : InShortCall(t) ~> pc[t] = "idle"

\* C26 witness: a get-parity call of the participant in its turn is waiting
\* for the spinlock's critical section while the other participant is
\* blocked in lock on a pending fence.
C26_Witness ==
    \E t, s \in Threads :
        /\ pc[t] = "ioctl_validate"
        /\ cmd[t] = DMAPP_IOCTL_GET_BUFFER_PARITY
        /\ is_locked[fd[t]]
        /\ pc[s] = "lock_wait"
        /\ ~fence[wait_fence[s]]

\* The two query codes.
QueryCmds == {DMAPP_IOCTL_GET_BUFFER_SIZE, DMAPP_IOCTL_GET_BUFFER_PARITY}

\* C28: query calls are read-only. get-buffer-size returns 10 and
\* get-parity returns the index of the caller's slot, and no step of either
\* call (its entry, its critical section and return) changes a slot, an
\* in-turn flag or a fence, whatever the state of the turn.
C28_QueryReadOnly ==
    [][\A t \in Threads :
          /\ (pc[t] = "idle" /\ pc'[t] = "ioctl_validate" /\ cmd'[t] \in QueryCmds)
                => UNCHANGED shared
          /\ (pc[t] = "ioctl_validate" /\ cmd[t] \in QueryCmds /\ StepOf(t)) =>
                /\ UNCHANGED shared
                /\ lastRet' = [thread |-> t, call |-> "ioctl", at |-> "ioctl_validate",
                               cmd |-> cmd[t],
                               val |-> IF cmd[t] = DMAPP_IOCTL_GET_BUFFER_SIZE
                                       THEN 10 ELSE SlotOf(fd[t])]]_vars

\* C28 witness: get-buffer-size has just returned 10 to the participant that
\* is in its turn while the other participant is blocked in lock.
C28_Witness ==
    \E t, s \in Threads :
        /\ Returned(t, "ioctl", "ioctl_validate", DMAPP_IOCTL_GET_BUFFER_SIZE, 10)
        /\ InTurn(fd[t])
        /\ pc[s] = "lock_wait"
        /\ ~fence[wait_fence[s]]

\* Number of times r occurs in the sequence s.
Count(s, r) == Cardinality({k \in 1..Len(s) : s[k] = r})

\* Everything in acq occurs in log as often as in acq, that is once, and
\* nothing else occurs in log.
ReleasedOnce(acq, log) ==
    /\ \A r \in SgResources : Count(acq, r) <= 1 /\ Count(log, r) = Count(acq, r)

\* C29: scatter-gather mapping fails cleanly. A map that fails (at the
\* descriptor allocation, the table allocation or the device mapping)
\* returns -ENOMEM with everything it had allocated released exactly once;
\* a map that succeeds holds descriptor, table and mapping with nothing
\* released, and the unmap that follows releases each of them exactly once;
\* at no point is something released that is not held.
C29_MapFailsCleanly ==
    \A i \in Importers :
        /\ \A r \in SgResources : Count(map_log[i], r) <= Count(map_acq[i], r)
        /\ map_pc[i] = "failed" =>
              /\ map_err[i] = -ENOMEM
              /\ Len(map_acq[i]) <= 2
              /\ ReleasedOnce(map_acq[i], map_log[i])
        /\ map_pc[i] = "mapped" =>
              /\ map_err[i] = 0
              /\ map_acq[i] = <<"sgt", "sg_table", "dma_mapping">>
              /\ map_log[i] = <<>>
        /\ map_pc[i] = "unmapped" =>
              /\ map_acq[i] = <<"sgt", "sg_table", "dma_mapping">>
              /\ ReleasedOnce(map_acq[i], map_log[i])

\* C29 witness: one attachment's map has failed at the device mapping step
\* and has released its table and its descriptor, while another attachment
\* has gone through a successful map and its unmap.
C29_Witness ==
    \E i, j \in Importers :
        /\ map_pc[i] = "failed"
        /\ map_acq[i] = <<"sgt", "sg_table">>
        /\ Len(map_log[i]) = 2
        /\ map_pc[j] = "unmapped"
        /\ Len(map_log[j]) = 3

\* No call is in flight.
AllReturned == \A t \in Threads : pc[t] = "idle"

\* Both slots hold a participant whose in-turn flag is set.
BothFlags == BothOccupied /\ is_locked[user[0]] /\ is_locked[user[1]]

\* C30 as stated: with two threads issuing calls on one handle, both
\* in-turn flags are never true once all calls have returned, the two fences
\* are never signaled at once, and every completed acquisition is by the
\* parity that did not make the previous one, whose holder has released in
\* between.
C30_SharedHandleExclusion ==
    /\ [](AllReturned => ~BothFlags)
    /\ [](~(fence[0] /\ fence[1]))
    /\ [][\A t \in Threads :
             Acquire(t) => /\ lastAcq # parity[t]
                           /\ (lastAcq # -1 => released)]_vars

(***************************************************************************)
(* C31 - C36                                                               *)
(***************************************************************************)

\* Thread t is inside an unlock call that has signaled the other parity's
\* fence and has not yet cleared its caller's flag.
UnlockPastSignal(t) == pc[t] \in {"unlock_spin", "unlock_clear"}

\* C31 as stated: in every reachable state, the states inside an unlock call
\* between its signal and the clearing of its flag included, at most one of
\* the two registered participants has its in-turn flag set.
C31_FlagsNeverBoth == ~BothFlags

\* C31 amended: two registered participants have their flags set together
\* only while at least one of them is inside an unlock call between its
\* signal and the clearing of its flag; of the participants that are not in
\* that window, at most one has its flag set.
C31_FlagsOverlapOnlyInUnlock ==
    \A f, g \in Files :
        (f # g /\ Registered(f) /\ Registered(g) /\ is_locked[f] /\ is_locked[g])
            => \E t \in Threads : fd[t] \in {f, g} /\ UnlockPastSignal(t)

\* C31 witness: the participant of parity 1 is inside unlock, has signaled
\* fence[0] and still has its flag set, and the participant of parity 0 has
\* completed its lock in the meantime: both flags are set.
C31_Witness ==
    \E t, s \in Threads :
        /\ pc[t] = "unlock_spin"
        /\ user[1] = fd[t] /\ is_locked[fd[t]]
        /\ user[0] = fd[s] /\ is_locked[fd[s]]
        /\ pc[s] = "idle"

\* The registered participants whose in-turn flag is set.
FlagsSet == {f \in Files : Registered(f) /\ is_locked[f]}

\* The fences that are signaled.
Signaled == {p \in 0..1 : fence[p]}

\* The turn is in exactly one place: in a signaled fence, with no flag set,
\* or with the one participant whose flag is set, both fences pending.
OneToken ==
    \/ Cardinality(Signaled) = 1 /\ FlagsSet = {}
    \/ Signaled = {} /\ Cardinality(FlagsSet) = 1

\* No thread is inside dmapp_cdev_ioctl.
NoIoctl ==
    \A t \in Threads : pc[t] \in {"idle", "open_lock", "open_assign", "rel_disconnect",
                                  "rel_check", "rel_signal"}

\* No thread is inside dmapp_cdev_ioctl or dmapp_cdev_release.
NoIoctlNoRelease ==
    \A t \in Threads : pc[t] \in {"idle", "open_lock", "open_assign"}

\* C32 as stated: at most one fence is signaled, and whenever no control
\* call is in flight the turn is in exactly one place.
C32_SingleToken ==
    /\ Cardinality(Signaled) <= 1
    /\ NoIoctl => OneToken

\* C32 amended: at most one fence is signaled in every reachable state, and
\* whenever neither a control call nor a close is in flight the turn is in
\* exactly one place: one fence signaled and no flag set, or both fences
\* pending and exactly one registered participant's flag set.
C32_SingleTokenAtRest ==
    /\ Cardinality(Signaled) <= 1
    /\ NoIoctlNoRelease => OneToken

\* C32 witness: no control call and no close is in flight, both fences are
\* pending and the turn is with the participant of parity 0, after parity 1
\* had it first; a third open is in progress.
C32_Witness ==
    /\ NoIoctlNoRelease
    /\ Signaled = {}
    /\ BothOccupied
    /\ FlagsSet = {user[0]}
    /\ firstAcq = 1 /\ lastAcq = 0
    /\ \E t \in Threads : pc[t] = "open_assign"

\* C33: signal provenance. fence[p] goes from pending to signaled only by
\* the signal of an unlock call of the in-turn participant registered at
\* parity 1-p, or by the signal of a close whose user was found in slot 1-p
\* with its flag set; so a lock call of parity p waiting on a pending
\* fence[p] does not get past its wait in any other step (it can only be
\* interrupted), in particular while slot 1-p is empty or after its
\* participant closed outside a turn.
C33_SignalProvenance ==
    [][/\ \A p \in 0..1 :
             (~fence[p] /\ fence'[p]) =>
                \E t \in Threads :
                    /\ StepOf(t)
                    /\ is_locked[fd[t]]
                    /\ signal_fence[t] = p
                    /\ \/ pc[t] = "unlock_signal" /\ user[1 - p] = fd[t]
                       \/ pc[t] = "rel_signal" /\ ~Registered(fd[t])
       /\ \A t \in Threads :
             /\ (pc[t] = "rel_disconnect" /\ StepOf(t) /\ signal_fence'[t] # NoFence)
                   => user[1 - signal_fence'[t]] = fd[t] /\ is_locked[fd[t]]
             /\ (pc[t] = "lock_wait" /\ ~fence[wait_fence[t]] /\ StepOf(t))
                   => /\ wait_fence[t] = SlotOf(fd[t])
                      /\ fence' = fence /\ is_locked' = is_locked
                      /\ lastRet' = [thread |-> t, call |-> "ioctl", at |-> "lock_wait",
                                     cmd |-> DMAPP_IOCTL_BUFFER_LOCK,
                                     val |-> -ERESTARTSYS]]_vars

\* C33 witness: the participant of parity 0 is blocked in lock on the
\* pending fence[0], slot 1 is empty, and the last step was the return of
\* a close by a participant that was not in its turn.
C33_Witness ==
    \E t \in Threads :
        /\ pc[t] = "lock_wait"
        /\ user[0] = fd[t]
        /\ ~fence[0]
        /\ user[1] = NULL
        /\ lastRet.call = "release"
        /\ lastRet.at = "rel_check"
        /\ ~is_locked[fd[lastRet.thread]]

\* The slots that hold file f.
SlotsOf(f) == {p \in 0..1 : user[p] = f}

\* C34: registration invariant. Every open handle occupies exactly one slot,
\* the two slots never hold the same handle, and only open handles occupy
\* slots; so every control call finds its handle in a slot at validation,
\* and no control call on an open handle returns through the
\* invalid-caller branch.
C34_Registration ==
    /\ [](/\ \A f \in Files : Cardinality(SlotsOf(f)) = (IF private_data[f] THEN 1 ELSE 0)
          /\ \A t \in Threads :
                pc[t] \notin {"idle", "open_lock", "open_assign", "rel_disconnect",
                              "rel_check", "rel_signal"}
                    => private_data[fd[t]] /\ Cardinality(SlotsOf(fd[t])) = 1)
    /\ [][\A t \in Threads :
             (pc[t] = "ioctl_validate" /\ StepOf(t))
                => ~(pc'[t] = "idle" /\ lastRet'.val = -EINVAL)]_vars

\* C34 witness: a control call is being validated on the handle in slot 1
\* while slot 0, whose participant took a turn and closed, is empty.
C34_Witness ==
    \E t \in Threads :
        /\ pc[t] = "ioctl_validate"
        /\ cmd[t] = DMAPP_IOCTL_BUFFER_LOCK
        /\ private_data[fd[t]]
        /\ SlotsOf(fd[t]) = {1}
        /\ user[0] = NULL
        /\ lastAcq = 0

\* Thread t is inside open.
InOpen(t) == pc[t] \in {"open_lock", "open_assign"}

\* C35: fresh handle starts outside a turn. An open that returns 0 leaves
\* its handle registered with the in-turn flag false, whatever the flag of
\* the previous user of the slot or of the file was; no step of open
\* changes a fence or the flag of another handle.
C35_FreshHandle ==
    [][\A t \in Threads :
          /\ ((pc[t] = "idle" /\ pc'[t] = "open_lock") \/ (InOpen(t) /\ StepOf(t))) =>
                /\ fence' = fence
                /\ \A f \in Files : f # fd[t] => is_locked'[f] = is_locked[f]
                /\ ~is_locked'[fd[t]]
          /\ (pc[t] = "open_assign" /\ StepOf(t) /\ lastRet'.val = 0) =>
                /\ Registered(fd[t])'
                /\ ~is_locked'[fd[t]]
                /\ \A f \in Files : f # fd[t] /\ Registered(f)' => is_locked'[f] = is_locked[f]]_vars

\* C35 witness: an open has just returned 0 for slot 1, whose previous
\* occupant had the last turn and closed; fence[0] is signaled on its
\* behalf, and the new handle's flag is false.
C35_Witness ==
    \E t \in Threads :
        /\ Returned(t, "open", "open_assign", 0, 0)
        /\ user[1] = fd[t]
        /\ ~is_locked[fd[t]]
        /\ lastAcq = 1 /\ released
        /\ fence[0] /\ ~fence[1]
        /\ user[0] # NULL

\* C36: echo module error paths. A set-data call returns 0 or -EFAULT; when
\* it returns -EFAULT (the copy from the caller failed) the stored value and
\* the record of the last successful set are what they were before the call.
\* A control call with a code that is neither get-data nor set-data returns
\* -ENOTTY and leaves the stored value unchanged, and -ENOTTY is returned for
\* no other code.
C36_EkmErrorPaths ==
    [][lastRet'.call = "ekm_ioctl" =>
         /\ lastRet'.cmd = EKM_IOCTL_SET_DATA => lastRet'.val \in {0, -EFAULT}
         /\ (lastRet'.cmd = EKM_IOCTL_SET_DATA /\ lastRet'.val = -EFAULT) =>
                /\ lastRet'.at = "idle"
                /\ ekm_data' = ekm_data
                /\ ekm_last' = ekm_last
         /\ lastRet'.cmd \notin {EKM_IOCTL_GET_DATA, EKM_IOCTL_SET_DATA} =>
                /\ lastRet'.val = -ENOTTY
                /\ ekm_data' = ekm_data
                /\ ekm_last' = ekm_last
         /\ lastRet'.val = -ENOTTY =>
                lastRet'.cmd \notin {EKM_IOCTL_GET_DATA, EKM_IOCTL_SET_DATA}]_vars

\* A set-data call has just failed with -EFAULT while the stored value is one
\* an earlier set-data call put there.
C36_Witness ==
    /\ lastRet.call = "ekm_ioctl"
    /\ lastRet.cmd = EKM_IOCTL_SET_DATA
    /\ lastRet.val = -EFAULT
    /\ ekm_data # EKM_DEFAULT
    /\ ekm_data = ekm_last.val

====
